---- MODULE Spec2Model ----
(***************************************************************************)
(* Bible commentary index: the commentary store (common_db.py), the        *)
(* scoring and retrieval engine (common_db.py), the passage model and the  *)
(* reference parser (common_passages.py) and the indexing driver           *)
(* (build_index.py).                                                       *)
(*                                                                         *)
(* Text is a sequence of one-character strings.  None is NoVerse.  Scores  *)
(* are exact rationals in hundredths (num/den); IEEE rounding noise of the *)
(* float sums is not modelled.  Timestamps (created_at, downloaded_at) are *)
(* not modelled.                                                           *)
(***************************************************************************)
EXTENDS Integers, Sequences, FiniteSets, TLC

\* ------------------------------------------------------------------ bounds

\* rows one parse of a raw source file yields at most
MaxRows == 2
\* the largest limit a search is asked for
MaxLimit == 2
\* the largest entry id the store hands out
MaxId == 4
\* the largest chapter number of a reference
MaxChapter == 10
\* the largest verse number of a reference
MaxVerse == 3

\* ------------------------------------------------------------- basic text

NoVerse == -1

Min(a, b) == IF a <= b THEN a ELSE b
Max(a, b) == IF a >= b THEN a ELSE b

Rep(c, n) == [i \in 1..n |-> c]

DigitChars == <<"0", "1", "2", "3", "4", "5", "6", "7", "8", "9">>

RECURSIVE ToStr(_)
ToStr(n) ==
    IF n < 10 THEN <<DigitChars[n + 1]>>
    ELSE ToStr(n \div 10) \o <<DigitChars[(n % 10) + 1]>>

\* ---------------------------------------------------------- book registry

Books ==
    { [id |-> 9,  osis |-> <<"1","S","a","m">>, name |-> <<"1"," ","S","a","m","u","e","l">>],
      [id |-> 10, osis |-> <<"2","S","a","m">>, name |-> <<"2"," ","S","a","m","u","e","l">>],
      [id |-> 19, osis |-> <<"P","s">>,         name |-> <<"P","s","a","l","m","s">>],
      [id |-> 64, osis |-> <<"3","J","o","h","n">>, name |-> <<"3"," ","J","o","h","n">>],
      [id |-> 45, osis |-> <<"R","o","m">>,     name |-> <<"R","o","m","a","n","s">>] }

BookById(i) == CHOOSE b \in Books : b.id = i

\* ---------------------------------------------------------- passage model

Passage(b, c1, v1, c2, v2) ==
    [book_id |-> b.id, osis |-> b.osis, book_name |-> b.name,
     chapter_start |-> c1, verse_start |-> v1, chapter_end |-> c2, verse_end |-> v2]

is_chapter_only(p) == p.verse_start = NoVerse /\ p.verse_end = NoVerse

normalized_label(p) ==
    IF is_chapter_only(p)
    THEN IF p.chapter_start = p.chapter_end
         THEN p.book_name \o <<" ">> \o ToStr(p.chapter_start)
         ELSE p.book_name \o <<" ">> \o ToStr(p.chapter_start) \o <<"-">> \o ToStr(p.chapter_end)
    ELSE IF p.chapter_start = p.chapter_end
         THEN IF p.verse_start = p.verse_end
              THEN p.book_name \o <<" ">> \o ToStr(p.chapter_start) \o <<":">> \o ToStr(p.verse_start)
              ELSE p.book_name \o <<" ">> \o ToStr(p.chapter_start) \o <<":">> \o ToStr(p.verse_start)
                       \o <<"-">> \o ToStr(p.verse_end)
         ELSE p.book_name \o <<" ">> \o ToStr(p.chapter_start) \o <<":">> \o ToStr(p.verse_start)
                  \o <<"-">> \o ToStr(p.chapter_end) \o <<":">> \o ToStr(p.verse_end)

\* ----------------------------------------------------------------- excerpts

IsSpace(c) == c = " "

RECURSIVE LStrip(_)
LStrip(t) == IF t # <<>> /\ IsSpace(Head(t)) THEN LStrip(Tail(t)) ELSE t

RECURSIVE RStrip(_)
RStrip(t) == IF t # <<>> /\ IsSpace(t[Len(t)]) THEN RStrip(SubSeq(t, 1, Len(t) - 1)) ELSE t

Strip(t) == RStrip(LStrip(t))

\* re.sub(r"\s+", " ", text)
CollapseWs(t) ==
    LET kept == {i \in 1..Len(t) : ~(i > 1 /\ IsSpace(t[i]) /\ IsSpace(t[i - 1]))}
        nth(j) == CHOOSE i \in kept : Cardinality({k \in kept : k <= i}) = j
    IN [j \in 1..Cardinality(kept) |-> t[nth(j)]]

\* text[:n] for n >= 0
Prefix(t, n) == SubSeq(t, 1, Min(n, Len(t)))

\* the suffix the source file appends to a cut excerpt: three characters
Ellipsis == <<"~", "~", "~">>

LastSpace(t) == IF \E i \in 1..Len(t) : IsSpace(t[i])
                THEN CHOOSE i \in 1..Len(t) : IsSpace(t[i]) /\ \A j \in (i + 1)..Len(t) : ~IsSpace(t[j])
                ELSE 0

_normalize_excerpt(text, max_len) ==
    LET t == CollapseWs(Strip(text))
        cut == Prefix(t, max_len - 1)
        cut2 == IF LastSpace(cut) > 0 THEN SubSeq(cut, 1, LastSpace(cut) - 1) ELSE cut
    IN IF Len(t) <= max_len THEN t ELSE cut2 \o Ellipsis

DefaultMaxLen == 900

NotNormalized == [done |-> FALSE, text |-> <<>>, max_len |-> 0, excerpt |-> <<>>]

\* ----------------------------------------------------------- book aliases

UpperChars == <<"A", "B", "C", "D", "E", "F", "G", "H", "I", "J", "K", "L", "M", "N", "O", "P", "Q", "R", "S", "T", "U", "V", "W", "X", "Y", "Z">>
LowerChars == <<"a", "b", "c", "d", "e", "f", "g", "h", "i", "j", "k", "l", "m", "n", "o", "p", "q", "r", "s", "t", "u", "v", "w", "x", "y", "z">>

IsUpper(c) == \E i \in 1..26 : UpperChars[i] = c
IsLower(c) == \E i \in 1..26 : LowerChars[i] = c
IsAlpha(c) == IsUpper(c) \/ IsLower(c)
IsDigit(c) == \E i \in 1..10 : DigitChars[i] = c

LowerChar(c) == IF IsUpper(c) THEN LowerChars[CHOOSE i \in 1..26 : UpperChars[i] = c] ELSE c

\* str.lower()
ToLower(t) == [i \in 1..Len(t) |-> LowerChar(t[i])]

StartsWith(t, pat) == Len(t) >= Len(pat) /\ SubSeq(t, 1, Len(pat)) = pat

\* str.replace(pat, rep), left to right, for a non-empty pat
RECURSIVE Replace(_, _, _)
Replace(t, pat, rep) ==
    IF t = <<>> THEN <<>>
    ELSE IF StartsWith(t, pat) THEN rep \o Replace(SubSeq(t, Len(pat) + 1, Len(t)), pat, rep)
    ELSE <<Head(t)>> \o Replace(Tail(t), pat, rep)

\* the aliases of the books above, as BOOKS lists them, each with its book id
BookAliases ==
    {
    \* 1 Samuel
    <<<<"1", " ", "s", "a", "m", "u", "e", "l">>, 9>>,
    <<<<"1", " ", "s", "a", "m">>, 9>>,
    <<<<"1", "s", "a">>, 9>>,
    <<<<"i", " ", "s", "a", "m", "u", "e", "l">>, 9>>,
    <<<<"f", "i", "r", "s", "t", " ", "s", "a", "m", "u", "e", "l">>, 9>>,
    \* 2 Samuel
    <<<<"2", " ", "s", "a", "m", "u", "e", "l">>, 10>>,
    <<<<"2", " ", "s", "a", "m">>, 10>>,
    <<<<"2", "s", "a">>, 10>>,
    <<<<"i", "i", " ", "s", "a", "m", "u", "e", "l">>, 10>>,
    <<<<"s", "e", "c", "o", "n", "d", " ", "s", "a", "m", "u", "e", "l">>, 10>>,
    \* 3 John
    <<<<"3", " ", "j", "o", "h", "n">>, 64>>,
    <<<<"3", " ", "j", "n">>, 64>>,
    <<<<"3", "j", "o">>, 64>>,
    <<<<"i", "i", "i", " ", "j", "o", "h", "n">>, 64>>,
    <<<<"t", "h", "i", "r", "d", " ", "j", "o", "h", "n">>, 64>>,
    \* Psalms
    <<<<"p", "s">>, 19>>,
    <<<<"p", "s", "a", "l", "m">>, 19>>,
    <<<<"p", "s", "a", "l", "m", "s">>, 19>>,
    <<<<"p", "s", "a">>, 19>>,
    \* Romans
    <<<<"r", "o", "m">>, 45>>,
    <<<<"r", "o">>, 45>>,
    <<<<"r", "o", "m", "a", "n", "s">>, 45>> }

\* name.lower(), osis.lower() and every alias, later entries overwriting
BOOK_BY_ALIAS ==
    BookAliases \cup {<<ToLower(b.name), b.id>> : b \in Books}
                \cup {<<ToLower(b.osis), b.id>> : b \in Books}

_normalize_book_phrase(t) ==
    LET s1 == CollapseWs(Replace(ToLower(Strip(t)), <<".">>, <<" ">>))
    IN Replace(Replace(Replace(s1, <<"i", "i", "i", " ">>, <<"3", " ">>),
                       <<"i", "i", " ">>, <<"2", " ">>),
               <<"i", " ">>, <<"1", " ">>)

NoBook == [id |-> 0, osis |-> <<>>, name |-> <<>>]

\* a lookup that knows the canonical names only
match_book_by_name(book_str) ==
    LET key == _normalize_book_phrase(book_str)
    IN IF \E b \in Books : ToLower(b.name) = key
       THEN CHOOSE b \in Books : ToLower(b.name) = key
       ELSE NoBook

\* BOOK_BY_ALIAS.get(...): the book, or NoBook for None
match_book(book_str) ==
    LET key == _normalize_book_phrase(book_str)
    IN IF \E a \in BOOK_BY_ALIAS : a[1] = key
       THEN BookById((CHOOSE a \in BOOK_BY_ALIAS : a[1] = key)[2])
       ELSE NoBook

\* ------------------------------------------------------- reference parser

RECURSIVE ToInt(_)
\* int() of a run of digits
ToInt(ds) ==
    IF ds = <<>> THEN 0
    ELSE 10 * ToInt(SubSeq(ds, 1, Len(ds) - 1))
           + ((CHOOSE i \in 1..10 : DigitChars[i] = ds[Len(ds)]) - 1)

\* the first position at or after i that holds no space (Len(t) + 1 at the end)
SkipSpaces(t, i) ==
    CHOOSE j \in i..(Len(t) + 1) :
        /\ \A k \in i..(j - 1) : IsSpace(t[k])
        /\ j = Len(t) + 1 \/ ~IsSpace(t[j])

\* the first position at or after i that holds no digit
SkipDigits(t, i) ==
    CHOOSE j \in i..(Len(t) + 1) :
        /\ \A k \in i..(j - 1) : IsDigit(t[k])
        /\ j = Len(t) + 1 \/ ~IsDigit(t[j])

At(t, i, c) == i <= Len(t) /\ t[i] = c

\* t[1..b] matches [1-3]?\s*[A-Za-z][A-Za-z .]+
BookGroupOK(t, b) ==
    \E a \in 1..(b - 1) :
        /\ IsAlpha(t[a])
        /\ \A i \in (a + 1)..b : IsAlpha(t[i]) \/ t[i] = " " \/ t[i] = "."
        /\ \/ \A i \in 1..(a - 1) : IsSpace(t[i])
           \/ /\ a > 1
              /\ t[1] \in {"1", "2", "3"}
              /\ \A i \in 2..(a - 1) : IsSpace(t[i])

NoGroups == [matched |-> FALSE, book |-> <<>>, c1 |-> <<>>, v1 |-> <<>>,
             c2 |-> <<>>, v2 |-> <<>>, dash |-> FALSE]

\* the rest of PASSAGE_RE after the book group ending at b:
\*   \s+ (\d+) (?: : (\d+) )? (?: \s* - \s* (?: (\d+) : )? (\d+)? )? \s* $
\* an unmatched group is the empty text
TailGroups(t, b) ==
    LET i1 == SkipSpaces(t, b + 1)
        i2 == SkipDigits(t, i1)
        hasV1 == At(t, i2, ":") /\ SkipDigits(t, i2 + 1) > i2 + 1
        i3 == IF hasV1 THEN SkipDigits(t, i2 + 1) ELSE i2
        j1 == SkipSpaces(t, i3)
        hasDash == At(t, j1, "-")
        j2 == SkipSpaces(t, j1 + 1)
        j3 == SkipDigits(t, j2)
        hasC2 == j3 > j2 /\ At(t, j3, ":")
        j4 == IF hasC2 THEN SkipDigits(t, j3 + 1) ELSE j3
        v2from == IF hasC2 THEN j3 + 1 ELSE j2
        endsAt == IF hasDash THEN SkipSpaces(t, j4) ELSE SkipSpaces(t, i3)
    IN IF i1 > b + 1 /\ i2 > i1 /\ endsAt = Len(t) + 1
       THEN [matched |-> TRUE,
             book |-> SubSeq(t, 1, b),
             c1 |-> SubSeq(t, i1, i2 - 1),
             v1 |-> IF hasV1 THEN SubSeq(t, i2 + 1, i3 - 1) ELSE <<>>,
             c2 |-> IF hasDash /\ hasC2 THEN SubSeq(t, j2, j3 - 1) ELSE <<>>,
             v2 |-> IF hasDash THEN SubSeq(t, v2from, j4 - 1) ELSE <<>>,
             dash |-> hasDash]
       ELSE NoGroups

\* PASSAGE_RE.match(raw): the lazy book group is the shortest that lets the
\* rest match
PASSAGE_RE(raw) ==
    LET ends == {b \in 2..Len(raw) : BookGroupOK(raw, b) /\ TailGroups(raw, b).matched}
    IN IF ends = {} THEN NoGroups
       ELSE TailGroups(raw, CHOOSE b \in ends : \A x \in ends : b <= x)

\* the second pattern: book \s+ (\d+) \s* - \s* (\d+) \s* $
ChapterRangeGroups(t, b) ==
    LET i1 == SkipSpaces(t, b + 1)
        i2 == SkipDigits(t, i1)
        j1 == SkipSpaces(t, i2)
        j2 == SkipSpaces(t, j1 + 1)
        j3 == SkipDigits(t, j2)
    IN IF i1 > b + 1 /\ i2 > i1 /\ At(t, j1, "-") /\ j3 > j2 /\ SkipSpaces(t, j3) = Len(t) + 1
       THEN [matched |-> TRUE, book |-> SubSeq(t, 1, b), c1 |-> SubSeq(t, i1, i2 - 1),
             v1 |-> <<>>, c2 |-> SubSeq(t, j2, j3 - 1), v2 |-> <<>>, dash |-> TRUE]
       ELSE NoGroups

CHAPTER_RANGE_RE(raw) ==
    LET ends == {b \in 2..Len(raw) : BookGroupOK(raw, b) /\ ChapterRangeGroups(raw, b).matched}
    IN IF ends = {} THEN NoGroups
       ELSE ChapterRangeGroups(raw, CHOOSE b \in ends : \A x \in ends : b <= x)

NoPassage == Passage(NoBook, 0, NoVerse, 0, NoVerse)

NotParsed == [kind |-> "", passage |-> NoPassage, msg |-> ""]

Returned(p) == [kind |-> "Passage", passage |-> p, msg |-> ""]
Raised(kind, msg) == [kind |-> kind, passage |-> NoPassage, msg |-> msg]

\* parse_passage once PASSAGE_RE has matched with groups m
ParseMatched(m, strict) ==
    LET b == match_book(m.book)
        c1 == ToInt(m.c1)
        v1 == IF m.v1 # <<>> THEN ToInt(m.v1) ELSE NoVerse
        c2 == IF m.c2 # <<>> THEN ToInt(m.c2) ELSE c1
        \* re.search(r"-\s*(\d+)\s*$", raw) finds nothing when the v2 group is
        \* empty: .group(1) on None
        searchFails == m.v2 = <<>> /\ m.dash /\ v1 # NoVerse /\ m.c2 = <<>>
        v2 == IF m.v2 # <<>> THEN ToInt(m.v2) ELSE v1
    IN IF b = NoBook THEN Raised("ValueError", "Unknown Bible book")
       ELSE IF searchFails THEN Raised("AttributeError", "'NoneType' object has no attribute 'group'")
       ELSE IF v1 = NoVerse /\ m.dash /\ m.v2 # <<>> /\ strict
            THEN Raised("ValueError", "Ambiguous chapter/verse range; use John 3:16 or John 3-4")
       ELSE IF v1 = NoVerse /\ v2 # NoVerse
            THEN IF m.c2 # <<>> THEN Returned(Passage(b, c1, NoVerse, c2, NoVerse))
                 ELSE Returned(Passage(b, c1, NoVerse, c1, NoVerse))
       ELSE IF c2 < c1 THEN Raised("ValueError", "Ending chapter is before starting chapter")
       ELSE IF c1 = c2 /\ v1 # NoVerse /\ v2 # NoVerse /\ v2 < v1
            THEN Raised("ValueError", "Ending verse is before starting verse")
       ELSE Returned(Passage(b, c1, v1, c2, v2))

\* parse_passage once only the second pattern has matched
ParseChapterRange(m2) ==
    LET b == match_book(m2.book)
        c1 == ToInt(m2.c1)
        c2 == ToInt(m2.c2)
    IN IF b = NoBook THEN Raised("ValueError", "Unknown Bible book")
       ELSE IF c2 < c1 THEN Raised("ValueError", "Ending chapter is before starting chapter")
       ELSE Returned(Passage(b, c1, NoVerse, c2, NoVerse))

\* a parser whose strict mode never raises the ambiguity error
parse_passage_lenient(text, strict) ==
    LET raw == Strip(text)
        m == PASSAGE_RE(raw)
        m2 == CHAPTER_RANGE_RE(raw)
    IN IF m.matched THEN ParseMatched(m, FALSE)
       ELSE IF m2.matched THEN ParseChapterRange(m2)
       ELSE Raised("ValueError", "Could not parse passage reference")

parse_passage(text, strict) ==
    LET raw == Strip(text)
        m == PASSAGE_RE(raw)
        m2 == CHAPTER_RANGE_RE(raw)
    IN IF m.matched THEN ParseMatched(m, strict)
       ELSE IF m2.matched THEN ParseChapterRange(m2)
       ELSE Raised("ValueError", "Could not parse passage reference")

\* ----------------------------------------------------- reference scanner

\* \w
IsWord(c) == IsAlpha(c) \/ IsDigit(c) \/ c = "_"

\* \b before position i: one side is a word character, the other is not
Boundary(t, i) ==
    LET before == i > 1 /\ i - 1 <= Len(t) /\ IsWord(t[i - 1])
        after == i <= Len(t) /\ IsWord(t[i])
    IN before # after

\* a run of one to three digits from i to j - 1
Digits13(t, i, j) == j = SkipDigits(t, i) /\ j - i >= 1 /\ j - i <= 3

NoRef == [matched |-> FALSE, book |-> <<>>, ch |-> <<>>, v1 |-> <<>>, ch2 |-> <<>>,
          v2 |-> <<>>, end |-> 0]

\* VERSE_REF_SCAN_RE from its ch group at position i:
\*   (\d{1,3}) : (\d{1,3}) (?: - (?: (\d{1,3}) : )? (\d{1,3}) )? \b
\* the range with a second chapter is tried first, then the range without,
\* then no range
NumbersAt(t, i) ==
    LET d1 == SkipDigits(t, i)
        d2 == SkipDigits(t, d1 + 1)
        e1 == SkipDigits(t, d2 + 1)
        e2 == SkipDigits(t, e1 + 1)
        head == [matched |-> TRUE, book |-> <<>>,
                 ch |-> SubSeq(t, i, d1 - 1), v1 |-> SubSeq(t, d1 + 1, d2 - 1),
                 ch2 |-> <<>>, v2 |-> <<>>, end |-> d2]
    IN IF ~(Digits13(t, i, d1) /\ At(t, d1, ":") /\ Digits13(t, d1 + 1, d2))
       THEN NoRef
       ELSE IF At(t, d2, "-") /\ Digits13(t, d2 + 1, e1) /\ At(t, e1, ":")
                /\ Digits13(t, e1 + 1, e2) /\ Boundary(t, e2)
            THEN [head EXCEPT !.ch2 = SubSeq(t, d2 + 1, e1 - 1),
                              !.v2 = SubSeq(t, e1 + 1, e2 - 1), !.end = e2]
       ELSE IF At(t, d2, "-") /\ Digits13(t, d2 + 1, e1) /\ Boundary(t, e1)
            THEN [head EXCEPT !.v2 = SubSeq(t, d2 + 1, e1 - 1), !.end = e1]
       ELSE IF Boundary(t, d2) THEN head
       ELSE NoRef

\* the book group starting at s can end at b: [1-3]?\s*[A-Za-z][A-Za-z .]+?
\* followed by \s+ and the numbers
ScanBookEndsAt(t, s, b) ==
    LET p == IF At(t, s, "1") \/ At(t, s, "2") \/ At(t, s, "3") THEN s + 1 ELSE s
        a == SkipSpaces(t, p)
        q == SkipSpaces(t, b + 1)
    IN /\ a <= Len(t) /\ IsAlpha(t[a])
       /\ b > a /\ b <= Len(t)
       /\ \A i \in (a + 1)..b : IsAlpha(t[i]) \/ t[i] = " " \/ t[i] = "."
       /\ q > b + 1
       /\ NumbersAt(t, q).matched

\* VERSE_REF_SCAN_RE matched at position s: with the shortest book group that
\* lets the rest match, else without a book
RefAt(t, s) ==
    LET ends == {b \in s..Len(t) : ScanBookEndsAt(t, s, b)}
        b == CHOOSE x \in ends : \A y \in ends : x <= y
    IN IF ~Boundary(t, s) THEN NoRef
       ELSE IF ends # {}
            THEN [NumbersAt(t, SkipSpaces(t, b + 1)) EXCEPT !.book = SubSeq(t, s, b)]
       ELSE NumbersAt(t, s)

\* VERSE_REF_SCAN_RE.finditer(text) from position pos: the leftmost match,
\* then the matches after its end
RECURSIVE finditer(_, _)
finditer(t, pos) ==
    LET starts == {s \in pos..Len(t) : RefAt(t, s).matched}
        s == CHOOSE x \in starts : \A y \in starts : x <= y
        m == RefAt(t, s)
    IN IF starts = {} THEN <<>> ELSE <<m>> \o finditer(t, m.end)

\* the loop body of scan_passages_in_text for one match: the Passage
\* appended, or nothing; default_book is <<>> for None
ScannedPassage(m, default_book) ==
    LET book_part == IF m.book # <<>> THEN m.book ELSE default_book
        b == match_book(book_part)
        c1 == ToInt(m.ch)
        v1 == ToInt(m.v1)
        c2 == IF m.ch2 # <<>> THEN ToInt(m.ch2) ELSE c1
        v2 == IF m.v2 # <<>> THEN ToInt(m.v2) ELSE v1
    IN IF book_part = <<>> \/ b = NoBook THEN <<>>
       ELSE <<Passage(b, c1, v1, c2, v2)>>

RECURSIVE ScanMatches(_, _)
ScanMatches(ms, default_book) ==
    IF ms = <<>> THEN <<>>
    ELSE ScannedPassage(Head(ms), default_book) \o ScanMatches(Tail(ms), default_book)

scan_passages_in_text(line, default_book) ==
    ScanMatches(finditer(line, 1), default_book)

\* ------------------------------------------------------- written references

\* a reference as it is written: words before it, the book as spelled with the
\* id of the book meant (0 for none), the numbers of its shape, words after it
Written(use, shape, pre, spelling, id, c, v, c2, v2, post) ==
    [use |-> use, shape |-> shape, pre |-> pre, book |-> spelling, id |-> id,
     c |-> c, v |-> v, c2 |-> c2, v2 |-> v2, post |-> post]

NotTyped == Written("", "", <<>>, <<>>, 0, 0, 0, 0, 0, <<>>)

\* match_book not called yet
NotMatched == [id |-> -1, osis |-> <<>>, name |-> <<>>]

\* scan_passages_in_text not called yet
NotScanned == [done |-> FALSE, default_book |-> <<>>, passages |-> <<>>]

\* the numbers of a written reference, by shape
NumbersText(w) ==
    CASE w.shape = "C" -> ToStr(w.c)
      [] w.shape = "C:V" -> ToStr(w.c) \o <<":">> \o ToStr(w.v)
      [] w.shape = "C:V-V2" -> ToStr(w.c) \o <<":">> \o ToStr(w.v) \o <<"-">> \o ToStr(w.v2)
      [] w.shape = "C:V-C2:V2" ->
             ToStr(w.c) \o <<":">> \o ToStr(w.v) \o <<"-">> \o ToStr(w.c2) \o <<":">> \o ToStr(w.v2)
      [] w.shape = "C-N" -> ToStr(w.c) \o <<"-">> \o ToStr(w.c2)
      [] w.shape = "C-C2:V2" -> ToStr(w.c) \o <<"-">> \o ToStr(w.c2) \o <<":">> \o ToStr(w.v2)
      [] w.shape = "C:V-" -> ToStr(w.c) \o <<":">> \o ToStr(w.v) \o <<"-">>
      [] w.shape = "C:V-C2:" -> ToStr(w.c) \o <<":">> \o ToStr(w.v) \o <<"-">> \o ToStr(w.c2) \o <<":">>
      [] w.shape = "C-" -> ToStr(w.c) \o <<"-">>
      [] OTHER -> <<>>

\* the text of a written reference
WrittenText(w) ==
    w.pre \o w.book
          \o (IF w.book # <<>> /\ w.shape # "" THEN <<" ">> ELSE <<>>)
          \o NumbersText(w) \o w.post

\* --------------------------------------------------------- rows of a source

\* build_index._make_entry
_make_entry(source, p, excerpt) ==
    [commentator_key |-> source.commentator_key,
     work_title      |-> source.work_title,
     book_id         |-> p.book_id,
     chapter_start   |-> p.chapter_start,
     verse_start     |-> p.verse_start,
     chapter_end     |-> p.chapter_end,
     verse_end       |-> p.verse_end,
     granularity     |-> IF is_chapter_only(p) THEN "chapter"
                         ELSE IF p.chapter_start = p.chapter_end /\ p.verse_start = p.verse_end
                              THEN "verse" ELSE "range",
     passage_label   |-> normalized_label(p),
     excerpt         |-> _normalize_excerpt(excerpt, DefaultMaxLen),
     sort_chapter    |-> p.chapter_start,
     sort_verse      |-> IF p.verse_start = NoVerse \/ p.verse_start = 0 THEN 0 ELSE p.verse_start]

\* build_index._rows_from_ai_jsonl, one record that has no coverage_label:
\* the label is the book and the starting chapter
AiRow(source, b, ch1, v1, ch2, v2, gran, text) ==
    [commentator_key |-> source.commentator_key,
     work_title      |-> source.work_title,
     book_id         |-> b.id,
     chapter_start   |-> ch1,
     verse_start     |-> v1,
     chapter_end     |-> ch2,
     verse_end       |-> v2,
     granularity     |-> IF gran \in {"verse", "range", "chapter"} THEN gran ELSE "range",
     passage_label   |-> b.name \o <<" ">> \o ToStr(ch1),
     excerpt         |-> _normalize_excerpt(text, DefaultMaxLen),
     sort_chapter    |-> ch1,
     sort_verse      |-> IF v1 = NoVerse THEN 0 ELSE v1]

\* ------------------------------------------------------- commentary store

\* sqlite INTEGER PRIMARY KEY: the largest id in the table plus one
NextId(table) ==
    IF table = {} THEN 1
    ELSE 1 + (CHOOSE m \in {r.id : r \in table} : \A r \in table : r.id <= m)

SameTriple(r, s) ==
    /\ r.commentator_key = s.commentator_key
    /\ r.work_title = s.work_title
    /\ r.local_raw_path = s.local_raw_path

PARSER_VERSION == "0.1"

\* INSERT OR IGNORE: a row that exists for the triple is left as it is
upsert_source_or_ignore(srcs, s, content_hash) ==
    IF \E r \in srcs : SameTriple(r, s)
    THEN srcs
    ELSE srcs \cup { [id |-> NextId(srcs),
                      commentator_key |-> s.commentator_key,
                      work_title |-> s.work_title,
                      local_raw_path |-> s.local_raw_path,
                      source_url |-> s.source_url,
                      parser_name |-> s.parser,
                      parser_version |-> PARSER_VERSION,
                      content_hash |-> content_hash] }

\* the sources table after upsert_source(s..., PARSER_VERSION, content_hash);
\* downloaded_at, the time of the call, is left out
upsert_source(srcs, s, content_hash) ==
    IF \E r \in srcs : SameTriple(r, s)
    THEN { IF SameTriple(r, s)
           THEN [r EXCEPT !.source_url = s.source_url,
                          !.parser_name = s.parser,
                          !.parser_version = PARSER_VERSION,
                          !.content_hash = content_hash]
           ELSE r : r \in srcs }
    ELSE srcs \cup { [id |-> NextId(srcs),
                      commentator_key |-> s.commentator_key,
                      work_title |-> s.work_title,
                      local_raw_path |-> s.local_raw_path,
                      source_url |-> s.source_url,
                      parser_name |-> s.parser,
                      parser_version |-> PARSER_VERSION,
                      content_hash |-> content_hash] }

\* the id upsert_source returns
SourceId(srcs, s) == (CHOOSE r \in srcs : SameTriple(r, s)).id

CovKey(r) == <<r.commentator_key, r.book_id, r.chapter_start, r.chapter_end>>

\* a delete that removes nothing
DeleteEntriesKeepsAll(ents, source_id) == ents

\* a delete without its WHERE clause
DeleteEntriesOfAll(ents, source_id) == {}

\* DELETE FROM entries WHERE source_id = ?
DeleteEntries(ents, source_id) == {e \in ents : e.source_id # source_id}

\* the coverage keys of the source's existing entries, deleted from coverage
DeleteCoverage(cov, ents, source_id) ==
    cov \ {CovKey(e) : e \in {x \in ents : x.source_id = source_id}}

EntryOf(row, id, source_id) ==
    [id |-> id, source_id |-> source_id,
     commentator_key |-> row.commentator_key, work_title |-> row.work_title,
     book_id |-> row.book_id,
     chapter_start |-> row.chapter_start, verse_start |-> row.verse_start,
     chapter_end |-> row.chapter_end, verse_end |-> row.verse_end,
     granularity |-> row.granularity, passage_label |-> row.passage_label,
     excerpt |-> row.excerpt,
     sort_chapter |-> row.sort_chapter, sort_verse |-> row.sort_verse]

\* the insert loop over the first k rows
RECURSIVE InsertEntries(_, _, _, _)
InsertEntries(ents, source_id, rows, k) ==
    IF k = 0 THEN ents
    ELSE LET before == InsertEntries(ents, source_id, rows, k - 1)
         IN before \cup {EntryOf(rows[k], NextId(before), source_id)}

\* INSERT OR IGNORE INTO coverage for the first k rows
InsertCoverage(cov, rows, k) == cov \cup {CovKey(rows[i]) : i \in 1..k}

\* replace_entries_for_source with k rows inserted: k = Len(rows) when it
\* returns, k < Len(rows) when the insert of row k + 1 raises
replace_entries_for_source(st, source_id, rows, k) ==
    [sources  |-> st.sources,
     entries  |-> InsertEntries(DeleteEntries(st.entries, source_id), source_id, rows, k),
     coverage |-> InsertCoverage(DeleteCoverage(st.coverage, st.entries, source_id), rows, k)]

\* ------------------------------------------------- scoring and retrieval

\* the candidate query without its book condition
_sql_candidates_any_book(st, p) ==
    {e \in st.entries :
        /\ \E s \in st.sources : s.id = e.source_id
        /\ e.chapter_start <= p.chapter_end
        /\ e.chapter_end >= p.chapter_start}

\* SELECT e.*, s.source_url, s.local_raw_path FROM entries e JOIN sources s ...
_sql_candidates(st, p) ==
    {e \in st.entries :
        /\ \E s \in st.sources : s.id = e.source_id
        /\ e.book_id = p.book_id
        /\ e.chapter_start <= p.chapter_end
        /\ e.chapter_end >= p.chapter_start}

\* a score in hundredths, num / den
Rat(n, d) == [num |-> n, den |-> d]

\* x or default, for an optional integer
OrElse(x, default) == IF x = NoVerse \/ x = 0 THEN default ELSE x

_verse_overlap_score(p, row) ==
    LET gran == row.granularity
        rv1 == OrElse(row.verse_start, 1)
        rv2 == OrElse(row.verse_end, rv1)
        q1 == p.verse_start
        q2 == p.verse_end
        overlap == Max(0, Min(rv2, q2) - Max(rv1, q1) + 1)
        qlen == Max(1, q2 - q1 + 1)
        rlen == Max(1, rv2 - rv1 + 1)
        exact == IF rv1 = q1 /\ rv2 = q2 THEN 1 ELSE 0
    IN IF gran = "chapter" THEN Rat(20, 1)
       ELSE IF p.verse_start = NoVerse \/ p.verse_end = NoVerse
            THEN IF gran = "range" THEN Rat(35, 1) ELSE Rat(25, 1)
       ELSE IF row.chapter_start # p.chapter_start \/ row.chapter_end # p.chapter_end
            THEN Rat(30, 1)
       ELSE IF overlap <= 0 THEN Rat(0, 1)
       ELSE Rat(60 * overlap * rlen + 20 * overlap * qlen + 20 * exact * qlen * rlen, qlen * rlen)

\* the weights of verse and chapter exchanged
GranularityWeightSwapped(gran) ==
    CASE gran = "verse" -> 45
      [] gran = "range" -> 80
      [] gran = "chapter" -> 100
      [] OTHER -> 50

GranularityWeight(gran) ==
    CASE gran = "verse" -> 100
      [] gran = "range" -> 80
      [] gran = "chapter" -> 45
      [] OTHER -> 50

\* str.lower() on the commentator keys in use
LowerKey(k) == IF k = "Calvin" THEN "calvin" ELSE k

\* commentator_priority.get(key, 999); the map is the preference list's index
PrefRank(commentator_priority, key) ==
    IF \E i \in 1..Len(commentator_priority) : commentator_priority[i] = key
    THEN (CHOOSE i \in 1..Len(commentator_priority) :
              /\ commentator_priority[i] = key
              /\ \A j \in (i + 1)..Len(commentator_priority) : commentator_priority[j] # key) - 1
    ELSE 999

\* a bonus that counts the preference list from 1
PrefBonusFromOne(pref_rank) == Max(0, 25 - Min(pref_rank + 1, 20) * 3)

PrefBonus(pref_rank) == Max(0, 25 - Min(pref_rank, 20) * 3)

LenBonus(excerpt_len) ==
    IF 120 <= excerpt_len /\ excerpt_len <= 1200 THEN 5
    ELSE IF excerpt_len > 40 THEN 2 ELSE 0

score_row(row, p, commentator_priority) ==
    LET overlap == _verse_overlap_score(p, row)
        fixed == GranularityWeight(row.granularity)
                   + PrefBonus(PrefRank(commentator_priority, LowerKey(row.commentator_key)))
                   + LenBonus(Len(Strip(row.excerpt)))
    IN IF overlap.num <= 0 /\ ~(p.verse_start = NoVerse /\ row.granularity = "chapter")
       THEN Rat(0, 1)
       ELSE Rat(fixed * overlap.den + overlap.num, overlap.den)

RatLess(a, b) == a.num * b.den < b.num * a.den
RatEq(a, b) == a.num * b.den = b.num * a.den

\* round(score, 4) in units of 0.0001, ties to even
Round4(x) ==
    LET n == x.num * 100
        q == n \div x.den
        r == n % x.den
    IN IF 2 * r > x.den THEN q + 1
       ELSE IF 2 * r < x.den THEN q
       ELSE IF q % 2 = 0 THEN q ELSE q + 1

\* a sort key without sort_chapter and sort_verse, ties to the newest row
SortsBeforeTieById(a, b, p, commentator_priority) ==
    LET sa == score_row(a, p, commentator_priority)
        sb == score_row(b, p, commentator_priority)
    IN RatLess(sb, sa) \/ (RatEq(sa, sb) /\ a.id > b.id)

\* the sort key (-score, sort_chapter, sort_verse, id): a sorts before b
SortsBefore(a, b, p, commentator_priority) ==
    LET sa == score_row(a, p, commentator_priority)
        sb == score_row(b, p, commentator_priority)
    IN \/ RatLess(sb, sa)
       \/ /\ RatEq(sa, sb)
          /\ \/ a.sort_chapter < b.sort_chapter
             \/ /\ a.sort_chapter = b.sort_chapter
                /\ \/ a.sort_verse < b.sort_verse
                   \/ a.sort_verse = b.sort_verse /\ a.id < b.id

RECURSIVE SortScored(_, _, _)
SortScored(rows, p, commentator_priority) ==
    IF rows = {} THEN <<>>
    ELSE LET first == CHOOSE a \in rows :
                          \A b \in rows \ {a} : SortsBefore(a, b, p, commentator_priority)
         IN <<first>> \o SortScored(rows \ {first}, p, commentator_priority)

\* a dedup key on the whole excerpt
DedupKeyWholeExcerpt(row) == <<row.commentator_key, row.passage_label, row.excerpt>>

\* the dedup key of a row
DedupKey(row) == <<row.commentator_key, row.passage_label, Prefix(row.excerpt, 120)>>

ResultOf(row, st, score) ==
    LET s == CHOOSE x \in st.sources : x.id = row.source_id
    IN [id |-> row.id, commentator |-> row.commentator_key, work |-> row.work_title,
        coverage |-> row.passage_label, granularity |-> row.granularity,
        excerpt |-> row.excerpt, source_url |-> s.source_url,
        local_raw_path |-> s.local_raw_path, score |-> Round4(score)]

\* the loop over the sorted rows from position i, with the result and the
\* seen keys so far; the limit is tested after the append
RECURSIVE Collect(_, _, _, _, _, _, _, _)
Collect(scored, i, result, seen, st, p, commentator_priority, limit) ==
    IF i > Len(scored) THEN result
    ELSE IF DedupKey(scored[i]) \in seen
         THEN Collect(scored, i + 1, result, seen, st, p, commentator_priority, limit)
    ELSE LET appended == Append(result, ResultOf(scored[i], st,
                                   score_row(scored[i], p, commentator_priority)))
         IN IF Len(appended) >= limit THEN appended
            ELSE Collect(scored, i + 1, appended, seen \cup {DedupKey(scored[i])},
                         st, p, commentator_priority, limit)

search_entries(st, passage, commentator_priority, limit) ==
    LET rows == _sql_candidates(st, passage)
        kept == {r \in rows : score_row(r, passage, commentator_priority).num > 0}
        scored == SortScored(kept, passage, commentator_priority)
    IN Collect(scored, 1, <<>>, {}, st, passage, commentator_priority, limit)

\* ------------------------------------------------------------------ inputs

Romans == BookById(45)
Psalms == BookById(19)

ShortText == <<"V", "e", "r", "s", "e", " ", "n", "o", "t", "e">>
LongText1 == Rep("a", 120) \o <<"b">>
LongText2 == Rep("a", 120) \o <<"c">>
LongText3 == Rep("z", 120) \o <<"c">>

SrcHenry1 == [commentator_key |-> "henry", work_title |-> "Henry",
              local_raw_path |-> "/raw/henry1.txt", source_url |-> "https://example.com/henry1",
              parser |-> "generic_refscan"]
SrcHenry2 == [commentator_key |-> "henry", work_title |-> "Henry",
              local_raw_path |-> "/raw/henry2.txt", source_url |-> "https://example.com/henry2",
              parser |-> "generic_refscan"]
SrcCalvin == [commentator_key |-> "Calvin", work_title |-> "Calvin",
              local_raw_path |-> "/raw/calvin.txt", source_url |-> "https://example.com/calvin",
              parser |-> "generic_refscan"]
SrcAiHenry == [commentator_key |-> "henry", work_title |-> "AI Friendly mh",
               local_raw_path |-> "/ai/mh/records.jsonl", source_url |-> "",
               parser |-> "ai_friendly_jsonl"]

\* the source lists an indexing run may be given
Manifests == { <<SrcHenry1, SrcHenry2>>, <<SrcHenry1, SrcCalvin>>, <<SrcAiHenry>> }

\* the rows a source's raw file can yield, in file order
PoolCalvin ==
    << _make_entry(SrcCalvin, Passage(Romans, 8, 28, 8, 28), ShortText),
       _make_entry(SrcCalvin, Passage(Psalms, 8, NoVerse, 8, NoVerse), ShortText) >>

PoolAiHenry ==
    << AiRow(SrcAiHenry, Romans, 8, 28, 8, 28, "verse", LongText1),
       AiRow(SrcAiHenry, Romans, 8, 28, 8, 30, "range", LongText2),
       AiRow(SrcAiHenry, Romans, 8, 29, 8, 29, "verse", LongText3) >>

PoolHenry1 ==
    << _make_entry(SrcHenry1, Passage(Romans, 8, NoVerse, 8, NoVerse), LongText1),
       _make_entry(SrcHenry1, Passage(Romans, 8, 3, 8, 17), ShortText),
       _make_entry(SrcHenry1, Passage(Romans, 8, 4, 8, 17), LongText2) >>

PoolHenry2 ==
    << _make_entry(SrcHenry2, Passage(Romans, 8, NoVerse, 8, NoVerse), LongText1),
       _make_entry(SrcHenry2, Passage(Romans, 8, 3, 8, 17), ShortText) >>

Pool(src) ==
    CASE src = SrcCalvin -> PoolCalvin
      [] src = SrcAiHenry -> PoolAiHenry
      [] src = SrcHenry1 -> PoolHenry1
      [] src = SrcHenry2 -> PoolHenry2

\* the contents a raw file can have: the pool positions of the rows it yields
Files(src) == {S \in SUBSET (1..Len(Pool(src))) : Cardinality(S) <= MaxRows}

RECURSIVE SelectFrom(_, _, _)
SelectFrom(pool, S, i) ==
    IF i > Len(pool) THEN <<>>
    ELSE IF i \in S THEN <<pool[i]>> \o SelectFrom(pool, S, i + 1)
    ELSE SelectFrom(pool, S, i + 1)

\* parse_source_file / _rows_from_ai_jsonl on a raw file with contents S
parse_source_file(src, S) == SelectFrom(Pool(src), S, 1)

\* the content hash of a file that cannot be parsed
BadFile == {0}

QueryPassages ==
    { Passage(Romans, 8, 28, 8, 28),
      Passage(Romans, 8, 1, 8, 13),
      Passage(Romans, 8, NoVerse, 8, NoVerse) }

Priorities == { <<"henry">>, <<"calvin", "gill", "henry">> }

Limits == 0..MaxLimit

\* ------------------------------------------- books, aliases, build_manifest

\* common_passages.BOOKS: the OSIS codes of the canon, in order
BOOKS ==
    <<
       "Gen", "Exod", "Lev", "Num", "Deut", "Josh", "Judg", "Ruth",
       "1Sam", "2Sam", "1Kgs", "2Kgs", "1Chr", "2Chr", "Ezra", "Neh",
       "Esth", "Job", "Ps", "Prov", "Eccl", "Song", "Isa", "Jer",
       "Lam", "Ezek", "Dan", "Hos", "Joel", "Amos", "Obad", "Jonah",
       "Mic", "Nah", "Hab", "Zeph", "Hag", "Zech", "Mal", "Matt",
       "Mark", "Luke", "John", "Acts", "Rom", "1Cor", "2Cor", "Gal",
       "Eph", "Phil", "Col", "1Thess", "2Thess", "1Tim", "2Tim", "Titus",
       "Phlm", "Heb", "Jas", "1Pet", "2Pet", "1John", "2John", "3John",
       "Jude", "Rev"
    >>

SCHEMA_VERSION == "1"

\* the database file: the tables books, book_aliases (for the books the
\* reference parser models) and build_manifest; NoRegistry before the file
\* is made
NoRegistry == [books |-> {}, book_aliases |-> {}, build_manifest |-> << >>]

get_manifest(reg, key) ==
    IF key \in DOMAIN reg.build_manifest THEN reg.build_manifest[key] ELSE ""

\* a set_manifest that also records the key it wrote last
set_manifest_stamped(reg, key, value) ==
    [reg EXCEPT !.build_manifest =
        [k \in (DOMAIN reg.build_manifest) \cup {key, "last_key"} |->
            IF k = key THEN value ELSE IF k = "last_key" THEN key ELSE reg.build_manifest[k]]]

set_manifest(reg, key, value) ==
    [reg EXCEPT !.build_manifest =
        [k \in (DOMAIN reg.build_manifest) \cup {key} |->
            IF k = key THEN value ELSE reg.build_manifest[k]]]

\* a seed that inserts the canon whenever it is called, under the next ids
seed_books_again(reg) ==
    LET n == Cardinality(reg.books)
    IN [reg EXCEPT
          !.books = reg.books \cup
                    { [id |-> n + i, canon_order |-> i, osis |-> BOOKS[i]] : i \in 1..Len(BOOKS) },
          !.book_aliases = reg.book_aliases \cup { <<a[1], n + a[2]>> : a \in BOOK_BY_ALIAS }]

\* common_db.seed_books: nothing when books has rows; else book i of BOOKS
\* under id i, and its aliases
seed_books(reg) ==
    IF reg.books # {} THEN reg
    ELSE [reg EXCEPT
            !.books = { [id |-> i, canon_order |-> i, osis |-> BOOKS[i]] : i \in 1..Len(BOOKS) },
            !.book_aliases = BOOK_BY_ALIAS]

\* common_db.init_schema: the tables are made if they are not there (the
\* rows of sources, entries and coverage are not touched), seed_books,
\* schema_version, commit
init_schema(reg) ==
    set_manifest(seed_books(reg), "schema_version", SCHEMA_VERSION)

\* the source_manifest_version build_index records
ManifestVersion(m) ==
    IF m # <<>> /\ m[1].parser = "ai_friendly_jsonl" THEN "ai_friendly_v1" ELSE "1"

\* query_commentary._auto_bootstrap_needed, the raw files of the manifest
\* being there
_auto_bootstrap_needed(reg) ==
    \/ reg = NoRegistry
    \/ get_manifest(init_schema(reg), "parser_version") # PARSER_VERSION
    \/ get_manifest(init_schema(reg), "source_manifest_version") \notin {"1", "ai_friendly_v1"}

\* ------------------------------------------------------------------- state

VARIABLES
    manifest,   \* the sources of the manifest, in order
    conn,       \* the indexing connection: "closed", "open", "raised"
    idx,        \* build_index: position in the manifest
    sources,    \* the tables as the indexing connection sees them
    entries,
    coverage,
    disk,       \* the committed tables, as any other connection sees them
    lastRows,   \* source id -> the rows of the latest replace that returned, and
                \* whether an earlier replace for the source passed other rows
    query,      \* <<>> or <<the query being answered>>
    result,     \* the list search_entries returned
    ref,        \* the Passage a reference is rendered from
    refText,    \* the text handed to parse_passage
    refStrict,  \* parse_passage's strict argument
    parsed,     \* what parse_passage returned or raised
    typed,      \* the reference, line or alias as it was written, or NotTyped
    resolved,    \* what match_book returned
    scanned,    \* what scan_passages_in_text returned
    registry,   \* the committed tables books, book_aliases and build_manifest
    normalized  \* what _normalize_excerpt returned for a text and a max_len

\* the variables of the text functions
parserVars == <<ref, refText, refStrict, parsed, typed, resolved, scanned, normalized>>

vars == <<manifest, conn, idx, sources, entries, coverage, disk, lastRows, query, result,
          parserVars, registry>>

View == [sources |-> sources, entries |-> entries, coverage |-> coverage]

EmptyStore == [sources |-> {}, entries |-> {}, coverage |-> {}]

Init ==
    /\ manifest \in Manifests
    /\ conn = "closed"
    /\ idx = 1
    /\ sources = {}
    /\ entries = {}
    /\ coverage = {}
    /\ disk = EmptyStore
    /\ lastRows = << >>
    /\ query = <<>>
    /\ result = <<>>
    /\ ref = NoPassage
    /\ refText = <<>>
    /\ refStrict = FALSE
    /\ parsed = NotParsed
    /\ typed = NotTyped
    /\ resolved = NotMatched
    /\ scanned = NotScanned
    /\ registry = NoRegistry
    /\ normalized = NotNormalized

SetView(st) ==
    /\ sources' = st.sources
    /\ entries' = st.entries
    /\ coverage' = st.coverage

\* conn.commit()
Commit(st) == disk' = st

\* a failure handler that commits what the failed call wrote
CloseFailedCommits ==
    /\ disk' = View
    /\ UNCHANGED <<sources, entries, coverage>>

\* closing a connection with an open transaction rolls it back
CloseFailed ==
    /\ SetView(disk)
    /\ disk' = disk

\* build_index: connect, init_schema
BuildStart ==
    /\ conn = "closed"
    /\ query = <<>>
    /\ conn' = "open"
    /\ idx' = 1
    /\ registry' = init_schema(registry)
    /\ UNCHANGED <<manifest, sources, entries, coverage, disk, lastRows, query, result, parserVars>>

\* one source of the loop: upsert_source, parse, replace_entries_for_source, commit
IndexSource(S) ==
    /\ conn = "open"
    /\ query = <<>>
    /\ idx <= Len(manifest)
    /\ LET src == manifest[idx]
           rows == parse_source_file(src, S)
           srcs == upsert_source(sources, src, S)
           sid == SourceId(srcs, src)
           st == replace_entries_for_source(
                     [sources |-> srcs, entries |-> entries, coverage |-> coverage],
                     sid, rows, Len(rows))
       IN /\ \A e \in st.entries : e.id <= MaxId
          /\ SetView(st)
          /\ Commit(st)
          /\ lastRows' = [x \in (DOMAIN lastRows) \cup {sid} |->
                             IF x = sid
                             THEN [rows |-> rows,
                                   again |-> sid \in DOMAIN lastRows
                                             /\ (lastRows[sid].again \/ lastRows[sid].rows # rows)]
                             ELSE lastRows[x]]
    /\ idx' = idx + 1
    /\ UNCHANGED <<manifest, conn, query, result, parserVars, registry>>

\* one source of the loop whose parse raises: the source row is upserted, the
\* entries are kept, nothing is committed
IndexSourceParseFails ==
    /\ conn = "open"
    /\ query = <<>>
    /\ idx <= Len(manifest)
    /\ manifest[idx].parser = "generic_refscan"
    /\ sources' = upsert_source(sources, manifest[idx], BadFile)
    /\ idx' = idx + 1
    /\ UNCHANGED <<manifest, conn, entries, coverage, disk, lastRows, query, result, parserVars, registry>>

\* one source of the loop whose raw file is missing
IndexSourceMissing ==
    /\ conn = "open"
    /\ query = <<>>
    /\ idx <= Len(manifest)
    /\ manifest[idx].parser = "generic_refscan"
    /\ idx' = idx + 1
    /\ UNCHANGED <<manifest, conn, sources, entries, coverage, disk, lastRows, query, result, parserVars, registry>>

\* one source of the loop whose replace raises at the insert of row k + 1:
\* the exception leaves build_index
IndexSourceRaises(S, k) ==
    /\ conn = "open"
    /\ query = <<>>
    /\ idx <= Len(manifest)
    /\ LET src == manifest[idx]
           rows == parse_source_file(src, S)
           srcs == upsert_source(sources, src, S)
           sid == SourceId(srcs, src)
       IN /\ k < Len(rows)
          /\ NextId(DeleteEntries(entries, sid)) + k <= MaxId
          /\ SetView(replace_entries_for_source(
                 [sources |-> srcs, entries |-> entries, coverage |-> coverage],
                 sid, rows, k))
    /\ conn' = "raised"
    /\ UNCHANGED <<manifest, idx, disk, lastRows, query, result, parserVars, registry>>

\* the connection of the failed run goes away with its transaction open
Unwind ==
    /\ conn = "raised"
    /\ CloseFailed
    /\ conn' = "closed"
    /\ UNCHANGED <<manifest, idx, lastRows, query, result, parserVars, registry>>

\* the end of build_index: set_manifest, commit, close
BuildFinish ==
    /\ conn = "open"
    /\ query = <<>>
    /\ idx > Len(manifest)
    /\ Commit(View)
    /\ registry' = set_manifest(set_manifest(registry, "parser_version", PARSER_VERSION),
                                "source_manifest_version", ManifestVersion(manifest))
    /\ conn' = "closed"
    /\ UNCHANGED <<manifest, idx, sources, entries, coverage, lastRows, query, result, parserVars>>

\* a query on its own connection, for an index that needs no bootstrap:
\* init_schema, then search_entries over the committed tables, while no
\* indexing run is replacing them
Search(p, commentator_priority, limit) ==
    /\ query = <<>>
    /\ conn = "closed"
    /\ ~_auto_bootstrap_needed(registry)
    /\ registry' = init_schema(init_schema(registry))
    /\ query' = <<[passage |-> p, priority |-> commentator_priority, limit |-> limit]>>
    /\ result' = search_entries(disk, p, commentator_priority, limit)
    /\ UNCHANGED <<manifest, conn, idx, sources, entries, coverage, disk, lastRows, parserVars>>

\* the query has printed its result
QueryReturn ==
    /\ query # <<>>
    /\ query' = <<>>
    /\ result' = <<>>
    /\ UNCHANGED <<manifest, conn, idx, sources, entries, coverage, disk, lastRows, parserVars, registry>>

Next ==
    \/ BuildStart
    \/ \E S \in Files(manifest[Min(idx, Len(manifest))]) : IndexSource(S)
    \/ IndexSourceParseFails
    \/ IndexSourceMissing
    \/ \E S \in Files(manifest[Min(idx, Len(manifest))]) : \E k \in 0..MaxRows : IndexSourceRaises(S, k)
    \/ Unwind
    \/ BuildFinish
    \/ \E p \in QueryPassages : \E pr \in Priorities : \E l \in Limits : Search(p, pr, l)
    \/ QueryReturn

Spec == Init /\ [][Next]_vars

\* ------------------------------------------------- references, round trip

storeVars == <<manifest, conn, idx, sources, entries, coverage, disk, lastRows, query, result,
               registry, normalized>>

Verses == 1..MaxVerse

Chapters == 1..MaxChapter

\* the Passages parse_passage can return for a well-formed reference: whole
\* chapters, or verses at both ends, the end not before the start
ValidPassages ==
    { q \in { Passage(b, c[1], v[1], c[2], v[2]) :
                b \in Books,
                c \in Chapters \X Chapters,
                v \in {<<NoVerse, NoVerse>>} \cup (Verses \X Verses) } :
        /\ q.chapter_start <= q.chapter_end
        /\ q.chapter_start = q.chapter_end => q.verse_start <= q.verse_end }

\* the numbers references are written with: chapters and verses from 0, and
\* chapters of two digits
WrittenChapters == {0, 1, MaxChapter - 1, MaxChapter}

WrittenVerses == 0..MaxVerse

\* book spellings with the id of the book meant, 0 for a word that is no book
WrittenBooks ==
    { <<<<"R", "o", "m", "a", "n", "s">>, 45>>, <<<<"r", "o", "m">>, 45>>, <<<<"P", "s", "a", "l", "m">>, 19>>, <<<<"I", " ", "S", "a", "m", "u", "e", "l">>, 9>>, <<<<"F", "o", "o">>, 0>> }

\* references handed to parse_passage, in the shapes it documents
WrittenReferences ==
    { Written("reference", "C", <<>>, b[1], b[2], c, NoVerse, c, NoVerse, <<>>) :
        b \in WrittenBooks, c \in WrittenChapters }
    \cup { Written("reference", "C:V", <<>>, b[1], b[2], c, v, c, v, <<>>) :
        b \in WrittenBooks, c \in WrittenChapters, v \in WrittenVerses }
    \cup { Written("reference", "C:V-V2", <<>>, b[1], b[2], c, v, c, v2, <<>>) :
        b \in WrittenBooks, c \in WrittenChapters, v \in WrittenVerses, v2 \in WrittenVerses }
    \cup { Written("reference", "C:V-C2:V2", <<>>, b[1], b[2], c, v[1], c2, v[2], <<>>) :
        b \in WrittenBooks, c \in WrittenChapters, c2 \in WrittenChapters,
        v \in WrittenVerses \X WrittenVerses }
    \cup { Written("reference", "C-N", <<>>, b[1], b[2], c, NoVerse, n, NoVerse, <<>>) :
        b \in WrittenBooks, c \in WrittenChapters, n \in WrittenChapters \cup WrittenVerses }
    \cup { Written("reference", "C-C2:V2", <<>>, b[1], b[2], c, NoVerse, c2, v2, <<>>) :
        b \in WrittenBooks, c \in WrittenChapters, c2 \in WrittenChapters, v2 \in WrittenVerses }

\* the words a line of commentary has before and after a reference
WordsBefore == { <<"s", "e", "e", " ">>, <<"a", "s", " ", "i", "n", " ">> }

WordsAfter == { <<>>, <<" ", "i", "s">> }

\* lines of commentary text holding one chapter:verse reference after other
\* words, with or without a book
\* references that break off after the dash or the second colon
WrittenUnfinished ==
    { Written("unfinished", "C:V-", <<>>, b[1], b[2], c, v, c, v, <<>>) :
        b \in WrittenBooks, c \in WrittenChapters \ {0}, v \in WrittenVerses \ {0} }
    \cup { Written("unfinished", "C:V-C2:", <<>>, b[1], b[2], c, v, c2, v, <<>>) :
        b \in WrittenBooks, c \in WrittenChapters \ {0}, c2 \in WrittenChapters \ {0}, v \in WrittenVerses \ {0} }
    \cup { Written("unfinished", "C-", <<>>, b[1], b[2], c, NoVerse, c, NoVerse, <<>>) :
        b \in WrittenBooks, c \in WrittenChapters \ {0} }

WrittenLines ==
    { Written("line", "C:V", pre, b[1], b[2], c, v, c, v, post) :
        pre \in WordsBefore, post \in WordsAfter,
        b \in WrittenBooks \cup {<< <<>>, 0 >>}, c \in WrittenChapters, v \in WrittenVerses }
    \cup { Written("line", "C:V-V2", pre, b[1], b[2], c, v[1], c, v[2], post) :
        pre \in WordsBefore, post \in WordsAfter,
        b \in WrittenBooks \cup {<< <<>>, 0 >>}, c \in WrittenChapters,
        v \in WrittenVerses \X WrittenVerses }
    \cup { Written("line", "C:V", <<>>, <<>>, 0, c, v, c, v, post) :
        post \in WordsAfter, c \in WrittenChapters, v \in WrittenVerses }

\* book names and abbreviations handed to match_book, with the id of the book
\* meant: upper and lower case, a period after an abbreviation, I, II and III
WrittenAliases ==
    { Written("alias", "", <<>>, a[1], a[2], 0, 0, 0, 0, <<>>) : a \in
        { <<<<"R", "o", "m">>, 45>>,
          <<<<"R", "O", "M">>, 45>>,
          <<<<"r", "o", "m", "a", "n", "s">>, 45>>,
          <<<<"R", "o", "m", ".">>, 45>>,
          <<<<"P", "s">>, 19>>,
          <<<<"P", "s", ".">>, 19>>,
          <<<<"P", "S", "A", "L", "M", "S">>, 19>>,
          <<<<"1", " ", "S", "a", "m">>, 9>>,
          <<<<"1", " ", "S", "a", "m", ".">>, 9>>,
          <<<<"I", " ", "S", "a", "m">>, 9>>,
          <<<<"i", " ", "s", "a", "m", "u", "e", "l">>, 9>>,
          <<<<"I", "I", " ", "S", "a", "m">>, 10>>,
          <<<<"I", "I", " ", "S", "a", "m", ".">>, 10>>,
          <<<<"2", " ", "s", "a", "m", "u", "e", "l">>, 10>>,
          <<<<"I", "I", "I", " ", "J", "o", "h", "n">>, 64>>,
          <<<<"i", "i", "i", " ", "j", "o", "h", "n">>, 64>>,
          <<<<"3", " ", "J", "n", ".">>, 64>>,
          <<<<"F", "o", "o">>, 0>>,
          <<<<"F", "o", "o", ".">>, 0>>,
          <<<<"I", "V", " ", "J", "o", "h", "n">>, 0>> } }

\* the default books a scan is given: none, a book, a word that is no book
DefaultBooks == { <<>>, <<"P", "s", "a", "l", "m", "s">>, <<"F", "o", "o">> }

InitPassage ==
    /\ manifest = <<>>
    /\ conn = "closed"
    /\ idx = 1
    /\ sources = {}
    /\ entries = {}
    /\ coverage = {}
    /\ disk = EmptyStore
    /\ lastRows = << >>
    /\ query = <<>>
    /\ result = <<>>
    /\ ref \in ValidPassages \cup {NoPassage}
    /\ refText = <<>>
    /\ refStrict = FALSE
    /\ parsed = NotParsed
    /\ typed = NotTyped
    /\ resolved = NotMatched
    /\ scanned = NotScanned
    /\ registry = NoRegistry
    /\ normalized = NotNormalized

\* p.normalized_label()
Render ==
    /\ ref # NoPassage
    /\ refText = <<>>
    /\ refText' = normalized_label(ref)
    /\ UNCHANGED <<ref, refStrict, parsed, typed, resolved, scanned, storeVars>>

\* a reference, a line or an alias is written down
Type(w) ==
    /\ ref = NoPassage
    /\ typed = NotTyped
    /\ typed' = w
    /\ refText' = WrittenText(w)
    /\ UNCHANGED <<ref, refStrict, parsed, resolved, scanned, storeVars>>

\* parse_passage(text, strict=s)
Parse(s) ==
    /\ refText # <<>>
    /\ typed = NotTyped \/ typed.use \in {"reference", "unfinished"}
    /\ parsed = NotParsed
    /\ scanned = NotScanned
    /\ refStrict' = s
    /\ parsed' = parse_passage(refText, s)
    /\ UNCHANGED <<ref, refText, typed, resolved, scanned, storeVars>>

\* match_book(book_str)
Lookup ==
    /\ typed.use = "alias"
    /\ resolved = NotMatched
    /\ resolved' = match_book(refText)
    /\ UNCHANGED <<ref, refText, refStrict, parsed, typed, scanned, storeVars>>

\* scan_passages_in_text(text, default_book=d)
Scan(d) ==
    /\ typed.use = "line" \/ (typed.use = "reference" /\ typed.v # NoVerse)
    /\ parsed = NotParsed
    /\ scanned = NotScanned
    /\ scanned' = [done |-> TRUE, default_book |-> d,
                   passages |-> scan_passages_in_text(refText, d)]
    /\ UNCHANGED <<ref, refText, refStrict, parsed, typed, resolved, storeVars>>

NextPassage ==
    \/ Render
    \/ \E w \in WrittenReferences \cup WrittenUnfinished \cup WrittenLines \cup WrittenAliases :
           Type(w)
    \/ \E s \in BOOLEAN : Parse(s)
    \/ Lookup
    \/ \E d \in DefaultBooks : Scan(d)

SpecPassage == InitPassage /\ [][NextPassage]_vars

\* ------------------------------------------------------------ store claims

RowOf(e) ==
    [commentator_key |-> e.commentator_key, work_title |-> e.work_title,
     book_id |-> e.book_id,
     chapter_start |-> e.chapter_start, verse_start |-> e.verse_start,
     chapter_end |-> e.chapter_end, verse_end |-> e.verse_end,
     granularity |-> e.granularity, passage_label |-> e.passage_label,
     excerpt |-> e.excerpt,
     sort_chapter |-> e.sort_chapter, sort_verse |-> e.sort_verse]

RECURSIVE InIdOrder(_)
InIdOrder(ents) ==
    IF ents = {} THEN <<>>
    ELSE LET first == CHOOSE e \in ents : \A x \in ents : e.id <= x.id
         IN <<RowOf(first)>> \o InIdOrder(ents \ {first})

\* the rows stored for a source, in insertion order
RowsFor(ents, source_id) == InIdOrder({e \in ents : e.source_id = source_id})

\* C1: after any sequence of replace calls the entries of each source are
\* exactly the rows passed in the latest call for that source that returned,
\* in the committed tables and in the indexing connection's view.
C1_LatestRowsStored ==
    \A sid \in DOMAIN lastRows :
        /\ RowsFor(disk.entries, sid) = lastRows[sid].rows
        /\ conn # "raised" => RowsFor(entries, sid) = lastRows[sid].rows

\* a source replaced a second time with other rows, the second set not empty
C1_Witness ==
    \E sid \in DOMAIN lastRows :
        /\ lastRows[sid].again
        /\ lastRows[sid].rows # <<>>
        /\ \E e \in disk.entries : e.source_id = sid

\* C2: when replace_entries_for_source raises part-way through the inserts,
\* the entries other connections see stay the set from before the call, and
\* once the failed run's connection is gone the stored entries are that set.
C2_FailedReplaceKeepsPriorSet ==
    [][ /\ conn' = "raised" => (disk' = disk /\ disk'.entries = entries)
        /\ conn = "raised" => (disk' = disk /\ entries' = disk.entries
                                /\ coverage' = disk.coverage) ]_vars

\* a failed replace has deleted old rows and written some of the new ones
C2_Witness ==
    /\ conn = "raised"
    /\ \E e \in entries : e \notin disk.entries
    /\ \E e \in disk.entries : e \notin entries

\* C3: a replace for a source leaves the entries of every other source as
\* they were, whether it returns or raises.
C3_OtherSourcesUnchanged ==
    [][ (/\ conn = "open"
         /\ conn' # "closed"
         /\ idx <= Len(manifest)
         /\ \E r \in sources' : SameTriple(r, manifest[idx]))
        => LET sid == SourceId(sources', manifest[idx])
           IN {e \in entries' : e.source_id # sid} = {e \in entries : e.source_id # sid} ]_vars

\* a source has been replaced again while another source holds entries
C3_Witness ==
    \E sid \in DOMAIN lastRows :
        /\ lastRows[sid].again
        /\ \E e \in entries : e.source_id # sid

\* C4: the coverage table is the projection of the stored entries on
\* (commentator_key, book_id, chapter_start, chapter_end).
C4_CoverageIsProjection ==
    disk.coverage = {CovKey(e) : e \in disk.entries}

\* ----------------------------------------------------------- search claims

\* the stored entry a result was made from
Hit(i) == CHOOSE e \in disk.entries : e.id = result[i].id

RawScore(e) == score_row(e, query[1].passage, query[1].priority)

Bonus(e) == PrefBonus(PrefRank(query[1].priority, LowerKey(e.commentator_key)))
              + LenBonus(Len(Strip(e.excerpt)))

\* a verse-granularity entry within the query's chapter with a queried verse
CoversQuery(e, p) ==
    /\ e.granularity = "verse"
    /\ e.book_id = p.book_id
    /\ e.chapter_start = p.chapter_start /\ e.chapter_end = p.chapter_end
    /\ e.verse_start <= p.verse_end /\ e.verse_end >= p.verse_start

ChapterEntryFor(e, p) ==
    /\ e.granularity = "chapter"
    /\ e.book_id = p.book_id
    /\ e.chapter_start = p.chapter_start /\ e.chapter_end = p.chapter_end

\* C5: for a verse-precision query, a verse-granularity entry covering the
\* queried verse stands before every chapter-granularity entry of the same
\* chapter in the returned list.
C5_VerseAboveChapter ==
    (query # <<>> /\ query[1].passage.verse_start # NoVerse)
    => \A i, j \in 1..Len(result) :
           (ChapterEntryFor(Hit(i), query[1].passage) /\ CoversQuery(Hit(j), query[1].passage))
           => j < i

\* both are returned, and the chapter entry has the larger preference and
\* length bonus
C5_Witness ==
    /\ query # <<>>
    /\ query[1].passage.verse_start # NoVerse
    /\ \E i, j \in 1..Len(result) :
           /\ ChapterEntryFor(Hit(i), query[1].passage)
           /\ CoversQuery(Hit(j), query[1].passage)
           /\ Bonus(Hit(i)) > Bonus(Hit(j))

\* C6: every result belongs to the book of the query passage.
C6_ResultsInQueryBook ==
    query # <<>> => \A i \in 1..Len(result) : Hit(i).book_id = query[1].passage.book_id

\* a result is returned while the store holds an entry of another book for
\* the chapter asked for
C6_Witness ==
    /\ query # <<>>
    /\ result # <<>>
    /\ \E e \in disk.entries :
           /\ e.book_id # query[1].passage.book_id
           /\ e.chapter_start <= query[1].passage.chapter_end
           /\ e.chapter_end >= query[1].passage.chapter_start

ResultKey(r) == <<r.commentator, r.coverage, Prefix(r.excerpt, 120)>>

EntryKey(e) == <<e.commentator_key, e.passage_label, Prefix(e.excerpt, 120)>>

\* C7: the returned list has at most one result per (commentator_key,
\* passage label, first 120 characters of excerpt), and the result of a group
\* is made from an entry no entry of the group outscores.
C7_OnePerGroupBestKept ==
    query # <<>> =>
        /\ \A i, j \in 1..Len(result) : i < j => ResultKey(result[i]) # ResultKey(result[j])
        /\ \A i \in 1..Len(result) : \A e \in disk.entries :
               (/\ e.book_id = query[1].passage.book_id
                /\ e.chapter_start <= query[1].passage.chapter_end
                /\ e.chapter_end >= query[1].passage.chapter_start
                /\ EntryKey(e) = ResultKey(result[i]))
               => ~RatLess(RawScore(Hit(i)), RawScore(e))

\* a group of two different stored rows, the lower-scoring one left out
C7_Witness ==
    /\ query # <<>>
    /\ \E i \in 1..Len(result) : \E e \in disk.entries :
           /\ e.id # result[i].id
           /\ EntryKey(e) = ResultKey(result[i])
           /\ RawScore(e).num > 0
           /\ RatLess(RawScore(e), RawScore(Hit(i)))
           /\ \A j \in 1..Len(result) : result[j].id # e.id

TieBefore(a, b) ==
    \/ a.sort_chapter < b.sort_chapter
    \/ /\ a.sort_chapter = b.sort_chapter
       /\ \/ a.sort_verse < b.sort_verse
          \/ a.sort_verse = b.sort_verse /\ a.id < b.id

\* C8 as claimed: the list is in descending order of score, and results whose
\* reported scores are equal are in ascending (sort_chapter, sort_verse, id)
\* order.
C8_OrderByReportedScore ==
    \A i, j \in 1..Len(result) :
        i < j => \/ result[i].score > result[j].score
                 \/ result[i].score = result[j].score /\ TieBefore(Hit(i), Hit(j))

\* C8 amended: the list is in descending order of score, computed and
\* reported, and results whose computed (unrounded) scores are equal are in
\* ascending (sort_chapter, sort_verse, id) order.
C8_OrderByComputedScore ==
    \A i, j \in 1..Len(result) :
        i < j => /\ result[i].score >= result[j].score
                 /\ ~RatLess(RawScore(Hit(i)), RawScore(Hit(j)))
                 /\ RatEq(RawScore(Hit(i)), RawScore(Hit(j))) => TieBefore(Hit(i), Hit(j))

\* two results with equal computed scores
C8_Witness ==
    \E i, j \in 1..Len(result) : i < j /\ RatEq(RawScore(Hit(i)), RawScore(Hit(j)))

\* C9: search_entries returns at most limit results.
C9_AtMostLimit ==
    query # <<>> => Len(result) <= query[1].limit

\* -------------------------------------------------------- reference claims

\* C10: for every valid Passage p, single verse, verse range in one chapter,
\* verse range across chapters, single chapter or range of whole chapters,
\* parse_passage(p.normalized_label()) returns a Passage equal to p
C10_RoundTrip ==
    (ref # NoPassage /\ parsed # NotParsed) => parsed = Returned(ref)

\* a range of whole chapters has been rendered and parsed
C10_ChapterRangeParsed ==
    /\ parsed # NotParsed
    /\ is_chapter_only(ref)
    /\ ref.chapter_start < ref.chapter_end

\* C10, away from ranges of whole chapters: the other four shapes round-trip
C10_RoundTripVersesAndSingleChapters ==
    (ref # NoPassage /\ parsed # NotParsed
        /\ ~(is_chapter_only(ref) /\ ref.chapter_start < ref.chapter_end))
        => parsed = Returned(ref)

\* what a rendered range of whole chapters parses to: its first chapter alone,
\* or under strict a ValueError
C10_ChapterRangeParsesToFirstChapter ==
    C10_ChapterRangeParsed
        => parsed = IF refStrict
                    THEN Raised("ValueError",
                                "Ambiguous chapter/verse range; use John 3:16 or John 3-4")
                    ELSE Returned([ref EXCEPT !.chapter_end = ref.chapter_start])

\* ------------------------------------------------- indexing, from raw files

\* the raw text files of the reference-scan path: one line, a reference with
\* verses at the start of it
FileLines ==
    { w \in WrittenReferences :
        /\ w.shape \in {"C:V", "C:V-V2", "C:V-C2:V2"}
        /\ \/ w.book = <<"R", "o", "m", "a", "n", "s">>
           \/ w.book = <<"F", "o", "o">> /\ w.shape = "C:V"
        /\ w.c \in {1, MaxChapter - 1} /\ w.c2 \in {1, MaxChapter - 1}
        /\ w.v \in {1, 2} /\ w.v2 \in {1, 2} }

\* the records of a pre-normalised JSONL file: book, chapters, and verses
\* that are integers or missing
Records ==
    [book : {Romans}, chapter_start : {8, 9}, chapter_end : {8, 9},
     verse_start : {NoVerse, 1, 2}, verse_end : {NoVerse, 1, 2}]

\* the manifest entry of SrcCalvin after an edit: another url and parser
SrcCalvinMoved == [SrcCalvin EXCEPT !.source_url = "https://example.org/calvin",
                                    !.parser = "psalm_chapter_fallback"]

\* the source lists of an indexing run whose raw files hold the same line
FileManifests == { <<SrcCalvin, SrcHenry1>>, <<SrcCalvinMoved>>, <<SrcAiHenry>> }

RECURSIVE EntriesFor(_, _, _)
EntriesFor(source, found, excerpt) ==
    IF found = <<>> THEN <<>>
    ELSE <<_make_entry(source, Head(found), excerpt)>>
             \o EntriesFor(source, Tail(found), excerpt)

\* build_index.parse_source_file on a raw file of at most one line, for a
\* source for which _infer_default_book finds no default book (the branch of
\* psalm_chapter_fallback then adds nothing): the entries of the first three
\* references of the line, the line as excerpt
ScanFile(source, raw) ==
    LET line == Strip(raw)
        found == scan_passages_in_text(line, <<>>)
    IN IF line = <<>> THEN <<>> ELSE EntriesFor(source, Prefix(found, 3), line)

\* build_index._rows_from_ai_jsonl on a file of one record
RowsFromRecord(source, rec) ==
    << AiRow(source, rec.book, rec.chapter_start, rec.verse_start,
             rec.chapter_end, rec.verse_end, "range", ShortText) >>

InitIndex ==
    /\ manifest \in FileManifests
    /\ conn = "closed"
    /\ idx = 1
    /\ sources = {}
    /\ entries = {}
    /\ coverage = {}
    /\ disk = EmptyStore
    /\ lastRows = << >>
    /\ query = <<>>
    /\ result = <<>>
    /\ ref = NoPassage
    /\ refText = <<>>
    /\ refStrict = FALSE
    /\ parsed = NotParsed
    /\ typed = NotTyped
    /\ resolved = NotMatched
    /\ scanned = NotScanned
    /\ registry = NoRegistry
    /\ normalized = NotNormalized

\* one source of the loop, its rows given: upsert_source,
\* replace_entries_for_source, commit
IndexRows(rows, content_hash) ==
    /\ conn = "open"
    /\ query = <<>>
    /\ idx <= Len(manifest)
    /\ LET src == manifest[idx]
           srcs == upsert_source(sources, src, content_hash)
           sid == SourceId(srcs, src)
           st == replace_entries_for_source(
                     [sources |-> srcs, entries |-> entries, coverage |-> coverage],
                     sid, rows, Len(rows))
       IN /\ \A e \in st.entries : e.id <= MaxId
          /\ SetView(st)
          /\ Commit(st)
          /\ lastRows' = [x \in (DOMAIN lastRows) \cup {sid} |->
                             IF x = sid
                             THEN [rows |-> rows,
                                   again |-> sid \in DOMAIN lastRows
                                             /\ (lastRows[sid].again \/ lastRows[sid].rows # rows)]
                             ELSE lastRows[x]]
    /\ idx' = idx + 1
    /\ UNCHANGED <<manifest, conn, query, result, parserVars, registry>>

\* build_index on a text source: parse_source_file scans the raw file
IndexScannedFile ==
    /\ idx <= Len(manifest)
    /\ manifest[idx].parser \in {"generic_refscan", "psalm_chapter_fallback"}
    /\ IndexRows(ScanFile(manifest[idx], refText), refText)

\* build_index on a text source whose parse raises: the source row is
\* upserted with the hash of the file, the entries are kept, nothing is
\* committed
IndexFileParseFails ==
    /\ conn = "open"
    /\ query = <<>>
    /\ idx <= Len(manifest)
    /\ manifest[idx].parser \in {"generic_refscan", "psalm_chapter_fallback"}
    /\ sources' = upsert_source(sources, manifest[idx], refText)
    /\ idx' = idx + 1
    /\ UNCHANGED <<manifest, conn, entries, coverage, disk, lastRows, query, result, parserVars, registry>>

\* the manifest file is edited between two runs
EditManifest(m) ==
    /\ conn = "closed"
    /\ query = <<>>
    /\ m # manifest
    /\ manifest[1].parser # "ai_friendly_jsonl"
    /\ m[1].parser # "ai_friendly_jsonl"
    /\ manifest' = m
    /\ UNCHANGED <<conn, idx, sources, entries, coverage, disk, lastRows, query, result,
                   parserVars, registry>>

\* _build_from_ai_friendly on a dataset whose records.jsonl holds rec
IndexRecord(rec) ==
    /\ idx <= Len(manifest)
    /\ manifest[idx].parser = "ai_friendly_jsonl"
    /\ IndexRows(RowsFromRecord(manifest[idx], rec), rec)

NextIndex ==
    \/ BuildStart
    \/ \E w \in FileLines : Type(w)
    \/ IndexScannedFile
    \/ IndexFileParseFails
    \/ \E rec \in Records : IndexRecord(rec)
    \/ \E m \in FileManifests : EditManifest(m)
    \/ BuildFinish

SpecIndex == InitIndex /\ [][NextIndex]_vars

\* the book a written reference means
BookMeant(w) == IF w.id = 0 THEN NoBook ELSE BookById(w.id)

\* the Passage a written reference spells out
PassageWritten(w) == Passage(BookMeant(w), w.c, w.v, w.c2, w.v2)

\* a reference in one of the four shapes with a colon or a single chapter,
\* its end not before its start
WellFormed(w) ==
    /\ w.shape \in {"C", "C:V", "C:V-V2", "C:V-C2:V2"}
    /\ w.c <= w.c2
    /\ w.c = w.c2 => w.v <= w.v2

\* every number written is at least 1
Positive(w) ==
    /\ w.c >= 1 /\ w.c2 >= 1
    /\ w.v # NoVerse => w.v >= 1
    /\ w.v2 # NoVerse => w.v2 >= 1

Ambiguous == Raised("ValueError", "Ambiguous chapter/verse range; use John 3:16 or John 3-4")

EndBeforeStart == Raised("ValueError", "Ending chapter is before starting chapter")

\* C11: for a well-formed reference with a registered book, Book C:V,
\* Book C:V-V2, Book C:V-C2:V2 or Book C, parse_passage returns the Passage
\* with exactly the numbers written, under the canonical name of the book,
\* and the label of Book C is the canonical name and the chapter
C11_NumbersAsWritten ==
    (typed.use = "reference" /\ parsed # NotParsed /\ typed.id # 0 /\ WellFormed(typed))
        => /\ parsed = Returned(PassageWritten(typed))
           /\ typed.shape = "C" =>
                  normalized_label(parsed.passage)
                      = BookById(typed.id).name \o <<" ">> \o ToStr(typed.c)

\* "Psalm 10" has been parsed, and so has a verse range across chapters
C11_Witness ==
    /\ typed.use = "reference"
    /\ parsed.kind = "Passage"
    /\ typed.shape = "C"
    /\ typed.book # BookById(typed.id).name
    /\ typed.c = MaxChapter

\* C12: Book C-C2 with C2 >= C and a registered book parses to the whole
\* chapters C through C2
C12_ChapterRange ==
    (typed.shape = "C-N" /\ typed.id # 0 /\ typed.c2 >= typed.c /\ Positive(typed)
        /\ parsed # NotParsed /\ ~refStrict)
        => parsed = Returned(PassageWritten(typed))

\* C13: a reference with a registered book whose ending chapter is before its
\* starting chapter raises the invalid-range error when parsed
C13_EndBeforeStartRaises ==
    (typed.use = "reference" /\ typed.id # 0 /\ typed.c2 < typed.c /\ Positive(typed)
        /\ parsed # NotParsed /\ ~refStrict)
        => parsed = EndBeforeStart

\* C13 for the shape with verses at both ends, Book C:V-C2:V2
C13_EndBeforeStartRaisesWithVerses ==
    (typed.shape = "C:V-C2:V2" /\ typed.id # 0 /\ typed.c2 < typed.c /\ parsed # NotParsed)
        => parsed = EndBeforeStart

\* a reference with verses at both ends and the chapters reversed was parsed
C13_WitnessWithVerses ==
    typed.shape = "C:V-C2:V2" /\ typed.id # 0 /\ typed.c2 < typed.c /\ parsed # NotParsed

ValidNumbers(p) ==
    /\ p.chapter_start >= 1
    /\ p.chapter_end >= p.chapter_start
    /\ (p.verse_start = NoVerse) = (p.verse_end = NoVerse)
    /\ p.verse_start # NoVerse => p.verse_start >= 1
    /\ p.verse_end # NoVerse => p.verse_end >= 1
    /\ (p.chapter_start = p.chapter_end /\ p.verse_start # NoVerse /\ p.verse_end # NoVerse)
           => p.verse_end >= p.verse_start

\* C15: every Passage parse_passage returns, strict or not, has chapter and
\* verse numbers >= 1, chapter_end >= chapter_start, both verses or neither,
\* and verse_end >= verse_start within one chapter
C15_ReturnedPassagesValid ==
    parsed.kind = "Passage" => ValidNumbers(parsed.passage)

\* C15, the chapter order alone: chapter_end >= chapter_start
C15_ChaptersInOrder ==
    (parsed.kind = "Passage" /\ typed # NotTyped /\ Positive(typed)) => parsed.passage.chapter_end >= parsed.passage.chapter_start

\* C16: match_book resolves an alias in any case, with or without a period
\* after it, with I, II, III for 1, 2, 3, and returns no match for a word
\* that is no book
C16_AliasResolves ==
    resolved # NotMatched => resolved = BookMeant(typed)

\* C16 for aliases that do not end with a period
C16_AliasResolvesWithoutPeriod ==
    (resolved # NotMatched /\ typed.book[Len(typed.book)] # ".")
        => resolved = BookMeant(typed)

\* II Sam has been looked up
C16_WitnessWithoutPeriod ==
    resolved # NotMatched /\ typed.id = 10 /\ typed.book[1] = "I"

\* the book a scan is to give a written reference: the registered book
\* written before it, else the default book
BookExpected(w, default_book) ==
    IF w.book # <<>> THEN BookMeant(w) ELSE match_book(default_book)

\* C17: for a chapter:verse reference anywhere in the text, at the start or
\* after other words, the scan returns its Passage under the registered book
\* written before it, or under default_book when no book is written
C17_EveryReferenceFound ==
    (scanned.done /\ WellFormed(typed) /\ Positive(typed)
        /\ (typed.book # <<>> => typed.id # 0)
        /\ BookExpected(typed, scanned.default_book) # NoBook)
        => \E i \in 1..Len(scanned.passages) :
               scanned.passages[i]
                   = Passage(BookExpected(typed, scanned.default_book),
                             typed.c, typed.v, typed.c2, typed.v2)

\* C17 for a reference at the start of the text
C17_ReferenceAtStartFound ==
    (typed.pre = <<>>) => C17_EveryReferenceFound

\* a reference at the start of a line, with words after it, was scanned
C17_WitnessAtStart ==
    /\ scanned.done /\ typed.pre = <<>> /\ typed.post # <<>> /\ typed.book = <<>>
    /\ Len(scanned.passages) = 1

\* C18: every Passage the scan returns has a registered book,
\* chapter_end >= chapter_start, and verse_end >= verse_start within one
\* chapter
C18_ScannedPassagesValid ==
    (scanned.done /\ Positive(typed)) =>
        \A i \in 1..Len(scanned.passages) :
            LET p == scanned.passages[i]
            IN /\ p.book_id \in {b.id : b \in Books}
               /\ p.chapter_end >= p.chapter_start
               /\ p.chapter_start = p.chapter_end => p.verse_end >= p.verse_start

\* C18, the book alone: every Passage the scan returns has a registered book
C18_ScannedBooksRegistered ==
    scanned.done =>
        \A i \in 1..Len(scanned.passages) :
            scanned.passages[i].book_id \in {b.id : b \in Books}

\* the chapter and verse fields of a stored entry form a valid Passage
ValidEntry(e) ==
    /\ e.chapter_end >= e.chapter_start
    /\ (e.verse_start = NoVerse) = (e.verse_end = NoVerse)
    /\ (e.chapter_start = e.chapter_end /\ e.verse_start # NoVerse /\ e.verse_end # NoVerse)
           => e.verse_end >= e.verse_start

\* C19: after any indexing sequence, by the reference scan or from
\* pre-normalised JSONL, every entry in the store has chapter_end >=
\* chapter_start, both verses or neither, and verse_end >= verse_start within
\* one chapter
C19_StoredEntriesValid ==
    \A e \in entries \cup disk.entries : ValidEntry(e)

\* C19 on the reference-scan path alone
C19_ScannedEntriesValid ==
    \A e \in disk.entries : e.work_title = SrcCalvin.work_title => ValidEntry(e)

\* C19 on the JSONL path alone
C19_RecordEntriesValid ==
    \A e \in disk.entries : e.work_title = SrcAiHenry.work_title => ValidEntry(e)

\* the row of the sources table for the triple of manifest entry s
SourceRow(srcs, s) == CHOOSE r \in srcs : SameTriple(r, s)

\* C20: a step that calls upsert_source leaves one row per triple, every row
\* that existed keeps its id and its triple, the row of the source carries
\* the url, parser name, parser version and (for a text source) content hash
\* of this call, and a call that is followed by no replace keeps the entries
C20_UpsertKeepsOneRowPerTriple ==
    [][ (conn = "open" /\ idx' = idx + 1) =>
            LET s == manifest[idx]
            IN /\ \A r1, r2 \in sources' : SameTriple(r1, r2) => r1 = r2
               /\ \A r \in sources : \E r2 \in sources' : r2.id = r.id /\ SameTriple(r2, r)
               /\ Cardinality(sources')
                      = Cardinality(sources)
                        + (IF \E r \in sources : SameTriple(r, s) THEN 0 ELSE 1)
               /\ \E r \in sources' : SameTriple(r, s)
               /\ SourceRow(sources', s).source_url = s.source_url
               /\ SourceRow(sources', s).parser_name = s.parser
               /\ SourceRow(sources', s).parser_version = PARSER_VERSION
               /\ s.parser # "ai_friendly_jsonl"
                      => SourceRow(sources', s).content_hash = refText
               /\ disk' = disk => entries' = entries /\ coverage' = coverage
      ]_vars

\* the source was indexed from an empty file, then from a file with a
\* reference, and was then upserted again, with another url and parser, in a
\* run whose parse failed: its row has the id it had and its entries are
\* there
C20_Witness ==
    \E r \in sources : \E r0 \in disk.sources :
        /\ r.id = r0.id
        /\ r.source_url # r0.source_url
        /\ r.parser_name # r0.parser_name
        /\ r.content_hash # <<>>
        /\ r.id \in DOMAIN lastRows /\ lastRows[r.id].again
        /\ \E e \in entries : e.source_id = r.id
        /\ \E r2 \in sources : ~SameTriple(r2, r)

\* C21: init_schema on an initialised store seeds nothing again and leaves
\* books (66 rows, ids 1..66 in canonical order), aliases, the manifest,
\* sources, entries and coverage as they were
C21_InitSchemaIdempotent ==
    [][ (conn = "closed" /\ conn' = "open" /\ registry # NoRegistry) =>
            /\ Cardinality(registry.books) = 66
            /\ {b.id : b \in registry.books} = 1..66
            /\ \A b \in registry.books : b.canon_order = b.id /\ b.osis = BOOKS[b.id]
            /\ init_schema(registry) = registry
            /\ registry' = registry
            /\ disk' = disk
      ]_vars

\* a second indexing run has called init_schema on a store that a finished
\* run left with entries
C21_Witness ==
    /\ conn = "open" /\ idx = 1
    /\ get_manifest(registry, "parser_version") = PARSER_VERSION
    /\ disk.entries # {}

\* C22: answering a query, for an index that needs no bootstrap, leaves books,
\* aliases, build_manifest, sources, entries and coverage as they were
C22_QueryLeavesStore ==
    [][ (query = <<>> /\ query' # <<>>) =>
            /\ registry' = registry
            /\ disk' = disk
            /\ UNCHANGED <<sources, entries, coverage>>
      ]_vars

\* a query has been answered with results from a store with entries
C22_Witness ==
    query # <<>> /\ result # <<>> /\ disk.entries # {} /\ registry.books # {}

\* C23: when indexing one source fails, the run goes on with the remaining
\* sources of the manifest: a run that has sources left is not ended by the
\* step it takes
C23_FailureDoesNotAbort ==
    [][ (conn = "open" /\ idx < Len(manifest)) => conn' = "open" ]_vars

\* C23 for a source whose parse fails or whose raw file is missing: the run
\* moves to the next source and the entries are kept
C23_ParseFailureKeepsEntries ==
    [][ (conn = "open" /\ conn' = "open" /\ idx' = idx + 1 /\ disk' = disk)
            => entries' = entries /\ coverage' = coverage ]_vars

\* the parse of the first of two sources failed, with entries stored for it,
\* and the run is at the second source
C23_WitnessParseFailure ==
    /\ conn = "open" /\ idx = Len(manifest) /\ idx > 1
    /\ sources # disk.sources
    /\ \E e \in entries : \E r \in sources : SameTriple(r, manifest[1]) /\ e.source_id = r.id

\* ------------------------------------------------ queries, chapter by chapter

\* a split that gives every chapter the verses of the whole passage
split_by_chapter_unclipped(p) ==
    IF p.chapter_start = p.chapter_end THEN <<p>>
    ELSE [i \in 1..(p.chapter_end - p.chapter_start + 1) |->
            [p EXCEPT !.chapter_start = p.chapter_start + i - 1,
                      !.chapter_end = p.chapter_start + i - 1]]

\* common_passages.split_by_chapter; range(c1, c2 + 1) is empty when c2 < c1
split_by_chapter(p) ==
    IF p.chapter_start = p.chapter_end THEN <<p>>
    ELSE IF p.chapter_end < p.chapter_start THEN <<>>
    ELSE [i \in 1..(p.chapter_end - p.chapter_start + 1) |->
            LET ch == p.chapter_start + i - 1
            IN IF is_chapter_only(p)
               THEN [p EXCEPT !.chapter_start = ch, !.chapter_end = ch,
                              !.verse_start = NoVerse, !.verse_end = NoVerse]
               ELSE [p EXCEPT !.chapter_start = ch, !.chapter_end = ch,
                              !.verse_start = IF ch = p.chapter_start THEN p.verse_start ELSE 1,
                              !.verse_end = IF ch = p.chapter_end THEN p.verse_end ELSE 999]]

\* the characters of labels and commentator keys, in code point order
CodePoints == <<" ", "-">> \o DigitChars \o <<":">> \o UpperChars \o LowerChars

Ord(c) == CHOOSE i \in 1..Len(CodePoints) : CodePoints[i] = c

\* str < str
RECURSIVE StrLess(_, _)
StrLess(a, b) ==
    IF b = <<>> THEN FALSE
    ELSE IF a = <<>> THEN TRUE
    ELSE IF Head(a) = Head(b) THEN StrLess(Tail(a), Tail(b))
    ELSE Ord(Head(a)) < Ord(Head(b))

\* the characters of the commentator keys in use
KeyChars(k) ==
    CASE k = "henry" -> <<"h", "e", "n", "r", "y">>
      [] k = "Calvin" -> <<"C", "a", "l", "v", "i", "n">>
      [] k = "calvin" -> <<"c", "a", "l", "v", "i", "n">>

\* query: the sort key (-score, commentator, coverage); a sorts before b
MergedBefore(a, b) ==
    \/ a.score > b.score
    \/ /\ a.score = b.score
       /\ \/ StrLess(KeyChars(a.commentator), KeyChars(b.commentator))
          \/ a.commentator = b.commentator /\ StrLess(a.coverage, b.coverage)

\* query: the results of the chapters one after another
RECURSIVE AllResults(_, _, _, _, _)
AllResults(st, chunks, i, commentator_priority, max_excerpts) ==
    IF i > Len(chunks) THEN <<>>
    ELSE search_entries(st, chunks[i], commentator_priority, max_excerpts)
             \o AllResults(st, chunks, i + 1, commentator_priority, max_excerpts)

\* query: the dedup dict, in insertion order; a later result takes the place
\* of an earlier one of its key when its score is greater
RECURSIVE Dedup(_, _, _)
Dedup(all_results, i, kept) ==
    IF i > Len(all_results) THEN kept
    ELSE LET r == all_results[i]
             key == <<r.commentator, r.coverage, Prefix(r.excerpt, 120)>>
             at == {j \in 1..Len(kept) :
                       <<kept[j].commentator, kept[j].coverage, Prefix(kept[j].excerpt, 120)>> = key}
         IN IF at = {} THEN Dedup(all_results, i + 1, Append(kept, r))
            ELSE LET j == CHOOSE x \in at : TRUE
                 IN IF r.score > kept[j].score
                    THEN Dedup(all_results, i + 1, [kept EXCEPT ![j] = r])
                    ELSE Dedup(all_results, i + 1, kept)

\* sorted(...): a stable sort, by insertion
RECURSIVE InsertSorted(_, _)
InsertSorted(sorted, r) ==
    IF sorted = <<>> THEN <<r>>
    ELSE IF MergedBefore(r, Head(sorted)) THEN <<r>> \o sorted
    ELSE <<Head(sorted)>> \o InsertSorted(Tail(sorted), r)

RECURSIVE SortMerged(_, _)
SortMerged(kept, i) ==
    IF i = 0 THEN <<>>
    ELSE InsertSorted(SortMerged(kept, i - 1), kept[i])

\* query_commentary.query, lines 124-135, for max_excerpts >= 0
MergedResults(st, passage, commentator_priority, max_excerpts) ==
    LET all_results == AllResults(st, split_by_chapter(passage), 1,
                                  commentator_priority, max_excerpts)
        dedup == Dedup(all_results, 1, <<>>)
    IN Prefix(SortMerged(dedup, Len(dedup)), max_excerpts)

\* the rows an indexed source can hold for the search
SearchPool ==
    << _make_entry(SrcHenry1, Passage(Romans, 8, 28, 8, 28), ShortText),
       _make_entry(SrcHenry1, Passage(Romans, 8, 28, 9, 5), ShortText),
       _make_entry(SrcHenry1, Passage(Romans, 7, 1, 8, 5), ShortText),
       _make_entry(SrcHenry1, Passage(Romans, 8, NoVerse, 8, NoVerse), LongText1),
       _make_entry(SrcHenry1, Passage(Romans, 8, 9, 8, 9), ShortText),
       _make_entry(SrcHenry1, Passage(Romans, 8, 10, 8, 10), ShortText),
       _make_entry(SrcHenry1, Passage(Romans, 8, 9, 8, 10), LongText2),
       _make_entry(SrcHenry1, Passage(Romans, 9, 1, 9, 5), ShortText) >>

\* sequences of at most n different rows of the pool, by position
RECURSIVE RowLists(_)
RowLists(n) ==
    IF n = 0 THEN {<<>>}
    ELSE RowLists(n - 1)
         \cup { Append(l, i) : l \in {x \in RowLists(n - 1) : Len(x) = n - 1},
                                i \in 1..Len(SearchPool) }

\* the stores an indexing run of SrcHenry1 leaves
SearchStores ==
    { replace_entries_for_source(
          [sources |-> upsert_source({}, SrcHenry1, l), entries |-> {}, coverage |-> {}],
          1, [i \in 1..Len(l) |-> SearchPool[l[i]]], Len(l)) :
        l \in {x \in RowLists(MaxRows) : \A i, j \in 1..Len(x) : i # j => x[i] # x[j]} }

SearchPassages ==
    { Passage(Romans, 8, 28, 8, 28),
      Passage(Romans, 8, 28, 9, 5),
      Passage(Romans, 8, 1, 8, 13),
      Passage(Romans, 8, NoVerse, 8, NoVerse),
      Passage(Romans, 7, 3, 9, 5),
      Passage(Romans, 7, NoVerse, 9, NoVerse) }

\* the tables books, book_aliases and build_manifest after a finished run
BuiltRegistry ==
    set_manifest(set_manifest(init_schema(NoRegistry), "parser_version", PARSER_VERSION),
                 "source_manifest_version", "1")

InitSearch ==
    /\ manifest = <<SrcHenry1>>
    /\ conn = "closed"
    /\ idx = 1
    /\ disk \in SearchStores
    /\ sources = disk.sources
    /\ entries = disk.entries
    /\ coverage = disk.coverage
    /\ lastRows = << >>
    /\ query = <<>>
    /\ result = <<>>
    /\ ref = NoPassage
    /\ refText = <<>>
    /\ refStrict = FALSE
    /\ parsed = NotParsed
    /\ typed = NotTyped
    /\ resolved = NotMatched
    /\ scanned = NotScanned
    /\ registry = BuiltRegistry
    /\ normalized = NotNormalized

\* query() for a parsed passage, on its own connection, for an index that
\* needs no bootstrap: init_schema, split_by_chapter, search_entries for
\* every chapter, merge
Query(p, commentator_priority, max_excerpts) ==
    /\ query = <<>>
    /\ conn = "closed"
    /\ ~_auto_bootstrap_needed(registry)
    /\ registry' = init_schema(init_schema(registry))
    /\ query' = <<[passage |-> p, priority |-> commentator_priority, limit |-> max_excerpts,
                   chunks |-> split_by_chapter(p)]>>
    /\ result' = MergedResults(disk, p, commentator_priority, max_excerpts)
    /\ UNCHANGED <<manifest, conn, idx, sources, entries, coverage, disk, lastRows, parserVars>>

NextSearch ==
    \/ \E p \in SearchPassages : \E pr \in Priorities : \E l \in Limits : Search(p, pr, l)
    \/ \E p \in SearchPassages : \E pr \in Priorities : \E l \in Limits : Query(p, pr, l)
    \/ QueryReturn

SpecSearch == InitSearch /\ [][NextSearch]_vars

\* ------------------------------------------------ claims on scores and queries

\* the passages a query has searched for: its chapters, or the passage itself
Searched == IF "chunks" \in DOMAIN query[1]
            THEN {query[1].chunks[i] : i \in 1..Len(query[1].chunks)}
            ELSE {query[1].passage}

\* the verse numbers a row or passage with verses covers
VersesOf(x) == x.verse_start..x.verse_end

SameChapters(e, p) == e.chapter_start = p.chapter_start /\ e.chapter_end = p.chapter_end

\* the four terms as specified, in hundredths, for a row e and a passage p;
\* verse and range rows carry both verses
SpecifiedOverlap(e, p) ==
    LET common == Cardinality(VersesOf(e) \cap VersesOf(p))
        query_length == Cardinality(VersesOf(p))
        candidate_length == Cardinality(VersesOf(e))
    IN IF e.granularity = "chapter" THEN Rat(20, 1)
       ELSE IF p.verse_start = NoVerse THEN Rat(IF e.granularity = "range" THEN 35 ELSE 25, 1)
       ELSE IF ~SameChapters(e, p) THEN Rat(30, 1)
       ELSE IF common = 0 THEN Rat(0, 1)
       ELSE Rat(60 * common * candidate_length + 20 * common * query_length
                  + (IF VersesOf(e) = VersesOf(p) THEN 20 * query_length * candidate_length ELSE 0),
                query_length * candidate_length)

SpecifiedScore(e, p, commentator_priority) ==
    LET weight == CASE e.granularity = "verse" -> 100
                    [] e.granularity = "range" -> 80
                    [] e.granularity = "chapter" -> 45
        ranked == {i \in 1..Len(commentator_priority) :
                      commentator_priority[i] = LowerKey(e.commentator_key)}
        rank == IF ranked = {} THEN 999
                ELSE (CHOOSE i \in ranked : \A j \in ranked : i >= j) - 1
        preference == IF 25 - 3 * Min(rank, 20) > 0 THEN 25 - 3 * Min(rank, 20) ELSE 0
        n == Len(Strip(e.excerpt))
        length == IF n >= 120 /\ n <= 1200 THEN 5 ELSE IF n > 40 THEN 2 ELSE 0
        overlap == SpecifiedOverlap(e, p)
    IN IF e.granularity # "chapter" /\ p.verse_start # NoVerse /\ SameChapters(e, p)
          /\ VersesOf(e) \cap VersesOf(p) = {}
       THEN Rat(0, 1)
       ELSE Rat((weight + preference + length) * overlap.den + overlap.num, overlap.den)

VerseBefore(ca, va, cb, vb) == ca < cb \/ (ca = cb /\ va < vb)

\* no verse of the book lies both in the row's range and in the passage's
NoVerseInCommon(e, p) ==
    \/ VerseBefore(e.chapter_end, e.verse_end, p.chapter_start, p.verse_start)
    \/ VerseBefore(p.chapter_end, p.verse_end, e.chapter_start, e.verse_start)

\* C25: for a verse-precision query, search_entries returns no verse or range
\* entry whose verses have no verse in common with the query's, whatever
\* chapters the entry spans.
C25_NoDisjointEntryReturned ==
    (query # <<>> /\ "chunks" \notin DOMAIN query[1] /\ query[1].passage.verse_start # NoVerse) =>
        \A i \in 1..Len(result) :
            Hit(i).granularity \in {"verse", "range"}
                => ~NoVerseInCommon(Hit(i), query[1].passage)

\* the same for entries of exactly the query's chapters
C25_NoDisjointAlignedEntryReturned ==
    (query # <<>> /\ "chunks" \notin DOMAIN query[1] /\ query[1].passage.verse_start # NoVerse) =>
        \A i \in 1..Len(result) :
            (Hit(i).granularity \in {"verse", "range"}
                /\ SameChapters(Hit(i), query[1].passage)
                /\ query[1].passage.chapter_start = query[1].passage.chapter_end)
                => ~NoVerseInCommon(Hit(i), query[1].passage)

\* the sub-passage of chapter ch, as specified, for a passage of several chapters
SpecifiedChapter(p, ch) ==
    [book_id |-> p.book_id, osis |-> p.osis, book_name |-> p.book_name,
     chapter_start |-> ch, chapter_end |-> ch,
     verse_start |-> IF p.verse_start = NoVerse /\ p.verse_end = NoVerse THEN NoVerse
                     ELSE IF ch = p.chapter_start THEN p.verse_start ELSE 1,
     verse_end |-> IF p.verse_start = NoVerse /\ p.verse_end = NoVerse THEN NoVerse
                   ELSE IF ch = p.chapter_end THEN p.verse_end ELSE 999]

\* C26: split_by_chapter returns the passage itself for one chapter, and for
\* chapters c1..c2 one single-chapter sub-passage per chapter in ascending
\* order: chapter-only for a chapter-only passage, otherwise with the verses
\* verse_start..999, 1..999 in between, and 1..verse_end.
C26_SplitByChapter ==
    (query # <<>> /\ "chunks" \in DOMAIN query[1]) =>
        LET p == query[1].passage
            chunks == query[1].chunks
        IN IF p.chapter_start = p.chapter_end THEN chunks = <<p>>
           ELSE /\ Len(chunks) = p.chapter_end - p.chapter_start + 1
                /\ \A i \in 1..Len(chunks) :
                       chunks[i] = SpecifiedChapter(p, p.chapter_start + i - 1)

\* a verse passage over three chapters and a chapter-only passage over three
\* chapters have been split
C26_Witness ==
    /\ query # <<>>
    /\ "chunks" \in DOMAIN query[1]
    /\ Len(query[1].chunks) = 3
    /\ query[1].chunks[2].verse_end = 999
    /\ result # <<>>

C26_WitnessChapterOnly ==
    /\ query # <<>>
    /\ "chunks" \in DOMAIN query[1]
    /\ Len(query[1].chunks) = 3
    /\ query[1].chunks[2].verse_end = NoVerse

\* the key (commentator, coverage, first 120 characters) of result i
MergedKey(i) == <<result[i].commentator, result[i].coverage, Prefix(result[i].excerpt, 120)>>

\* C27: the merged result list of query() holds one result per key
\* (commentator, coverage, first 120 characters of the excerpt), at most the
\* configured maximum of results, and is in descending order of score with
\* ties in ascending order of (sort_chapter, sort_verse, entry id).
C27_MergedOrderAsSearch ==
    (query # <<>> /\ "chunks" \in DOMAIN query[1]) =>
        /\ Len(result) <= query[1].limit
        /\ \A i, j \in 1..Len(result) : i # j => MergedKey(i) # MergedKey(j)
        /\ \A i, j \in 1..Len(result) : i < j =>
               \/ result[i].score > result[j].score
               \/ /\ result[i].score = result[j].score
                  /\ TieBefore(Hit(i), Hit(j))

\* the parts of C27 on keys, maximum and descending score
C27_MergedDedupAndCap ==
    (query # <<>> /\ "chunks" \in DOMAIN query[1]) =>
        /\ Len(result) <= query[1].limit
        /\ \A i, j \in 1..Len(result) : i # j => MergedKey(i) # MergedKey(j)
        /\ \A i, j \in 1..Len(result) : i < j => result[i].score >= result[j].score

\* a merged list of two results of several chapters
C27_WitnessMerged ==
    /\ query # <<>>
    /\ "chunks" \in DOMAIN query[1]
    /\ Len(query[1].chunks) > 1
    /\ Len(result) = 2
    /\ result[1].score > result[2].score

\* the row covers exactly the passage
CoversExactly(e, p) ==
    /\ e.book_id = p.book_id
    /\ SameChapters(e, p)
    /\ e.verse_start = p.verse_start
    /\ e.verse_end = p.verse_end

\* C29: with a limit of at least the number of stored entries, search_entries
\* for a verse-precision passage returns every stored entry that covers exactly
\* the passage, or another entry of its dedup key, also when the passage is a
\* cross-chapter range whose ending verse number is below the starting one.
C29_ExactEntryReturned ==
    (/\ query # <<>>
     /\ "chunks" \notin DOMAIN query[1]
     /\ query[1].passage.verse_start # NoVerse
     /\ query[1].limit >= Cardinality(disk.entries)) =>
        \A e \in disk.entries :
            CoversExactly(e, query[1].passage) =>
                \E i \in 1..Len(result) : ResultKey(result[i]) = EntryKey(e)

\* the same for passages within one chapter
C29_ExactEntryOfOneChapterReturned ==
    (/\ query # <<>>
     /\ "chunks" \notin DOMAIN query[1]
     /\ query[1].passage.verse_start # NoVerse
     /\ query[1].passage.chapter_start = query[1].passage.chapter_end
     /\ query[1].limit >= Cardinality(disk.entries)) =>
        \A e \in disk.entries :
            CoversExactly(e, query[1].passage) =>
                \E i \in 1..Len(result) : ResultKey(result[i]) = EntryKey(e)

\* an entry that covers exactly a single-chapter passage has been returned
C29_WitnessOneChapter ==
    /\ query # <<>>
    /\ "chunks" \notin DOMAIN query[1]
    /\ query[1].limit >= Cardinality(disk.entries)
    /\ \E e \in disk.entries : \E i \in 1..Len(result) :
           CoversExactly(e, query[1].passage) /\ result[i].id = e.id

\* ------------------------------------------------------------ excerpts

\* texts of letters and spaces of up to n characters
RECURSIVE Texts(_)
Texts(n) ==
    IF n = 0 THEN {<<>>}
    ELSE Texts(n - 1) \cup { Append(t, c) : t \in {x \in Texts(n - 1) : Len(x) = n - 1},
                                             c \in {"a", " "} }

MaxText == 5

\* the paragraphs handed to _normalize_excerpt and the caps on their length
ExcerptInputs ==
    (Texts(MaxText) \X (1..(MaxText - 1)))
        \cup {<<ShortText, DefaultMaxLen>>, <<Rep("a", DefaultMaxLen + 1), DefaultMaxLen>>}

InitExcerpt ==
    /\ manifest = <<>>
    /\ conn = "closed"
    /\ idx = 1
    /\ sources = {}
    /\ entries = {}
    /\ coverage = {}
    /\ disk = [sources |-> {}, entries |-> {}, coverage |-> {}]
    /\ lastRows = << >>
    /\ query = <<>>
    /\ result = <<>>
    /\ ref = NoPassage
    /\ refText = <<>>
    /\ refStrict = FALSE
    /\ parsed = NotParsed
    /\ typed = NotTyped
    /\ resolved = NotMatched
    /\ scanned = NotScanned
    /\ registry = NoRegistry
    /\ normalized = NotNormalized

\* _normalize_excerpt(text, max_len)
Normalize(text_in, cap) ==
    /\ ~normalized.done
    /\ normalized' = [done |-> TRUE, text |-> text_in, max_len |-> cap,
                      excerpt |-> _normalize_excerpt(text_in, cap)]
    /\ UNCHANGED <<manifest, conn, idx, sources, entries, coverage, disk, lastRows, query,
                   result, registry, ref, refText, refStrict, parsed, typed, resolved, scanned>>

\* the next call
NormalizeReturn ==
    /\ normalized.done
    /\ normalized' = NotNormalized
    /\ UNCHANGED <<manifest, conn, idx, sources, entries, coverage, disk, lastRows, query,
                   result, registry, ref, refText, refStrict, parsed, typed, resolved, scanned>>

NextExcerpt ==
    \/ \E x \in ExcerptInputs : Normalize(x[1], x[2])
    \/ NormalizeReturn

SpecExcerpt == InitExcerpt /\ [][NextExcerpt]_vars

\* C28: _normalize_excerpt(text, max_len) returns at most max_len characters
\* (900 by default) for every text, with runs of whitespace collapsed to one
\* space.
C28_ExcerptLengthCapped ==
    normalized.done =>
        /\ Len(normalized.excerpt) <= normalized.max_len
        /\ \A i \in 1..(Len(normalized.excerpt) - 1) :
               ~(IsSpace(normalized.excerpt[i]) /\ IsSpace(normalized.excerpt[i + 1]))

\* the length the code keeps to, and the whitespace part of C28
C28_ExcerptWithinCapPlusTwo ==
    normalized.done =>
        /\ Len(normalized.excerpt) <= normalized.max_len + 2
        /\ \A i \in 1..(Len(normalized.excerpt) - 1) :
               ~(IsSpace(normalized.excerpt[i]) /\ IsSpace(normalized.excerpt[i + 1]))
        /\ (Len(CollapseWs(Strip(normalized.text))) <= normalized.max_len
               => normalized.excerpt = CollapseWs(Strip(normalized.text)))

\* a text longer than the default cap has been cut
C28_WitnessDefaultCut ==
    /\ normalized.done
    /\ normalized.max_len = DefaultMaxLen
    /\ Len(normalized.text) > DefaultMaxLen
    /\ normalized.excerpt # normalized.text

\* C30: parse_passage returns a Passage or raises ValueError for every text;
\* a reference that ends in a dash with no number after it raises ValueError
\* and nothing else.
C30_ParseErrorOnly ==
    parsed # NotParsed => parsed.kind \in {"Passage", "ValueError"}

\* the same for texts other than 'Book C:V-'
C30_ParseErrorOnlyButDash ==
    (parsed # NotParsed /\ typed.shape # "C:V-") => parsed.kind \in {"Passage", "ValueError"}

\* a reference that breaks off after the second colon, or after the dash of a
\* chapter, has been parsed
C30_WitnessUnfinished ==
    /\ typed.use = "unfinished"
    /\ typed.shape # "C:V-"
    /\ typed.id # 0
    /\ parsed.kind = "Passage"

====
